---- MODULE Spec2Model ----
(***************************************************************************)
(* The transform registry of scripts/format/transforms.py, its            *)
(* construction at import time, and the facade that the format-conversion  *)
(* script (changing_the_format.py) and the batch runner                    *)
(* (run_all_transforms.py) put on top of it.                               *)
(*                                                                         *)
(* A Python str is a sequence of code points (naturals); bytes are a       *)
(* sequence of values 0..255.  Registry keys are kept as tuples of         *)
(* one-character strings so that they stay readable; Ord gives their code  *)
(* points where the code compares them.                                    *)
(***************************************************************************)
EXTENDS Integers, Sequences, FiniteSets, TLC

VARIABLES
    TRANSFORMS,     \* the registry: an insertion-ordered dict, name -> function
    pc,             \* position of the module's top-level code / of the caller
    enc, out,       \* positions of the two family loops (transforms.py:424-425)
    i, j,           \* loop variables of the nested-quote and chain loops
    existing_keys,  \* the snapshot list(TRANSFORMS.keys()) (transforms.py:448)
    ret,            \* what the last facade call returned or raised
    args,           \* url_generate.py: the parsed --delay-mode, --delay, --workers
    clock,          \* what time.time() returns, in ticks
    _last_call,     \* url_generate.py:28
    _last_lock,     \* url_generate.py:29: 0 when free, else the task holding it
    tasks           \* per submitted fetch_url call: position, locals, result

registry_vars == <<TRANSFORMS, pc, enc, out, i, j, existing_keys, ret>>
fetch_vars == <<args, clock, _last_call, _last_lock, tasks>>
vars == <<TRANSFORMS, pc, enc, out, i, j, existing_keys, ret,
          args, clock, _last_call, _last_lock, tasks>>

----------------------------------------------------------------------------
(* Bounds of the model.                                                    *)

\* longest text handed to a registered function
MaxLen == 2
\* longest payload of an entry of a json_data list
MaxPayload == 1
\* most entries in a json_data list drawn as an input
MaxEntries == 2
\* most static entries of the dict literal in the sized specification
MaxStatic == 6
\* the clock readings (seconds) a gzip header can carry
MaxClock == 2
\* the urls handed to the thread pool
MaxUrls == 3
\* most threads of the pool (--workers)
MaxWorkers == 2
\* largest --delay, in ticks of the clock
MaxDelay == 3
\* the longest sleep time.sleep accepts, in ticks (a longer one raises
\* OverflowError)
MaxSleep == 2
\* the last tick of the clock
MaxTime == 8

----------------------------------------------------------------------------
(* Characters and text.  Ascii lists the printable characters 32..126 in   *)
(* code point order (the grave accent, which a string cannot hold, is      *)
(* spelled out).                                                           *)

Ascii == <<
    " ", "!", "\"", "#", "$", "%", "&", "'", "(", ")", "*", "+", ",", "-", ".", "/",
    "0", "1", "2", "3", "4", "5", "6", "7", "8", "9", ":", ";", "<", "=", ">", "?",
    "@", "A", "B", "C", "D", "E", "F", "G", "H", "I", "J", "K", "L", "M", "N", "O",
    "P", "Q", "R", "S", "T", "U", "V", "W", "X", "Y", "Z", "[", "\\", "]", "^", "_",
    "GRAVE", "a", "b", "c", "d", "e", "f", "g", "h", "i", "j", "k", "l", "m", "n", "o",
    "p", "q", "r", "s", "t", "u", "v", "w", "x", "y", "z", "{", "|", "}", "~"
>>

\* ord() of a printable ASCII character
Ord == [c \in {Ascii[k] : k \in 1..Len(Ascii)} |->
           31 + (CHOOSE k \in 1..Len(Ascii) : Ascii[k] = c)]

\* a str literal of the source, written as a tuple of characters
T(chars) == [k \in 1..Len(chars) |-> Ord[chars[k]]]

Min(a, b) == IF a < b THEN a ELSE b

RECURSIVE Concat(_)
\* ''.join(parts), joined by halves to keep the evaluation shallow
Concat(parts) ==
    IF parts = <<>> THEN <<>>
    ELSE IF Len(parts) = 1 THEN parts[1]
    ELSE Concat(SubSeq(parts, 1, Len(parts) \div 2))
         \o Concat(SubSeq(parts, Len(parts) \div 2 + 1, Len(parts)))

\* ''.join(f(c) for c in s)
FlatMap(f(_), s) == Concat([k \in 1..Len(s) |-> f(s[k])])

\* s[::-1]
Reverse(s) == [k \in 1..Len(s) |-> s[Len(s) + 1 - k]]

\* the outcome of a call: a returned value, or an exception
Ok(v) == [ok |-> TRUE, val |-> v, exc |-> "none"]
Raise(e) == [ok |-> FALSE, val |-> <<>>, exc |-> e]

----------------------------------------------------------------------------
(* The registry as an insertion-ordered dict.                              *)

Keys(d) == [k \in 1..Len(d) |-> d[k].name]

Has(d, name) == \E k \in 1..Len(d) : d[k].name = name

Get(d, name) == d[CHOOSE k \in 1..Len(d) : d[k].name = name].fn

\* d[name] = f: a new key goes to the end, an existing key keeps its place
Put(d, name, f) ==
    IF Has(d, name)
    THEN [k \in 1..Len(d) |->
             IF d[k].name = name THEN [name |-> name, fn |-> f] ELSE d[k]]
    ELSE Append(d, [name |-> name, fn |-> f])

\* a function defined with def at module level
Def(f) == [kind |-> "def", fn |-> f]

\* the dict literal TRANSFORMS = {...}
StaticTable == <<
    [name |-> <<"n","o","o","p">>, fn |-> Def("noop")],
    [name |-> <<"b","a","s","e","6","4">>, fn |-> Def("base64_std")],
    [name |-> <<"b","a","s","e","6","4","_","u","r","l","s","a","f","e">>, fn |-> Def("base64_urlsafe")],
    [name |-> <<"b","a","s","e","6","4","_","n","o","p","a","d">>, fn |-> Def("base64_nopad")],
    [name |-> <<"h","e","x","_","l","o","w","e","r">>, fn |-> Def("hex_lower")],
    [name |-> <<"h","e","x","_","u","p","p","e","r">>, fn |-> Def("hex_upper")],
    [name |-> <<"b","a","c","k","s","l","a","s","h","_","x">>, fn |-> Def("backslash_x")],
    [name |-> <<"u","r","l","_","a","l","l">>, fn |-> Def("url_encode_all")],
    [name |-> <<"u","r","l","_","s","a","f","e","_","s","l","a","s","h">>, fn |-> Def("url_encode_safe_slash")],
    [name |-> <<"d","o","u","b","l","e","_","u","r","l">>, fn |-> Def("double_url")],
    [name |-> <<"h","t","m","l","_","n","a","m","e","d">>, fn |-> Def("html_escape_named")],
    [name |-> <<"h","t","m","l","_","n","u","m","_","d","e","c">>, fn |-> Def("html_numeric_dec")],
    [name |-> <<"h","t","m","l","_","n","u","m","_","h","e","x">>, fn |-> Def("html_numeric_hex")],
    [name |-> <<"u","n","i","c","o","d","e","_","e","s","c","a","p","e">>, fn |-> Def("unicode_escape_python")],
    [name |-> <<"j","s","_","e","s","c","a","p","e">>, fn |-> Def("js_escape")],
    [name |-> <<"r","o","t","1","3">>, fn |-> Def("rot13")],
    [name |-> <<"r","o","t","4","7">>, fn |-> Def("rot47")],
    [name |-> <<"g","z","i","p","_","b","a","s","e","6","4">>, fn |-> Def("gzip_base64")],
    [name |-> <<"z","l","i","b","_","b","a","s","e","6","4">>, fn |-> Def("zlib_base64")],
    [name |-> <<"b","z","2","_","b","a","s","e","6","4">>, fn |-> Def("bz2_base64")],
    [name |-> <<"l","z","m","a","_","b","a","s","e","6","4">>, fn |-> Def("lzma_base64")],
    [name |-> <<"b","a","s","e","3","2">>, fn |-> Def("base32_std")],
    [name |-> <<"b","a","s","e","8","5">>, fn |-> Def("base85_std")],
    [name |-> <<"a","s","c","i","i","8","5">>, fn |-> Def("ascii85_std")],
    [name |-> <<"q","u","o","t","e","d","_","p","r","i","n","t","a","b","l","e">>, fn |-> Def("quoted_printable")],
    [name |-> <<"p","u","n","y","c","o","d","e">>, fn |-> Def("punycode")],
    [name |-> <<"b","a","s","e","6","4","_","c","u","s","t","o","m","_","c","h","a","r","s">>, fn |-> Def("base64_custom_chars")],
    [name |-> <<"b","a","s","e","6","4","_","d","o","t","_","p","a","d">>, fn |-> Def("base64_dot_pad")],
    [name |-> <<"h","e","x","_","c","o","l","o","n">>, fn |-> Def("hex_colon")],
    [name |-> <<"h","e","x","_","s","p","a","c","e">>, fn |-> Def("hex_space")],
    [name |-> <<"h","e","x","_","r","e","v","e","r","s","e">>, fn |-> Def("hex_reverse")],
    [name |-> <<"r","o","t","5","_","d","i","g","i","t","s">>, fn |-> Def("rot5_digits")],
    [name |-> <<"r","o","t","1","3","_","b","a","s","e","6","4">>, fn |-> Def("rot13_base64")],
    [name |-> <<"b","a","s","e","6","4","_","m","i","m","e">>, fn |-> Def("base64_mime")],
    [name |-> <<"u","r","l","_","e","n","c","o","d","e","_","p","l","u","s">>, fn |-> Def("url_encode_plus")],
    [name |-> <<"u","r","l","_","d","e","c","o","d","e">>, fn |-> Def("url_decode")],
    [name |-> <<"h","t","m","l","_","e","s","c","a","p","e","_","n","u","m","_","o","n","l","y">>, fn |-> Def("html_escape_num_only")],
    [name |-> <<"h","e","x","_","0","x","_","p","r","e","f","i","x">>, fn |-> Def("hex_0x_prefix")],
    [name |-> <<"u","n","i","c","o","d","e","_","e","s","c","a","p","e","_","u","p","p","e","r">>, fn |-> Def("unicode_escape_upper")],
    [name |-> <<"s","h","u","f","f","l","e","_","s","t","r","i","n","g">>, fn |-> Def("shuffle_string")],
    [name |-> <<"r","e","p","e","a","t","_","2","x">>, fn |-> Def("repeat_2x")],
    [name |-> <<"r","e","p","e","a","t","_","3","x">>, fn |-> Def("repeat_3x")],
    [name |-> <<"p","r","e","f","i","x","_","e","n","c">>, fn |-> Def("prefix_enc")],
    [name |-> <<"s","u","f","f","i","x","_","e","n","d">>, fn |-> Def("suffix_end")],
    [name |-> <<"r","e","v","e","r","s","e","_","s","t","r","i","n","g">>, fn |-> Def("reverse_string")],
    [name |-> <<"r","e","v","e","r","s","e","_","b","y","t","e","s","_","h","e","x">>, fn |-> Def("reverse_bytes_hex")],
    [name |-> <<"u","t","f","1","6","l","e","_","b","o","m","_","b","a","s","e","6","4">>, fn |-> Def("utf16le_bom_base64")],
    [name |-> <<"u","t","f","1","6","b","e","_","b","o","m","_","b","a","s","e","6","4">>, fn |-> Def("utf16be_bom_base64")],
    [name |-> <<"z","l","i","b","_","m","a","x","_","b","a","s","e","6","4">>, fn |-> Def("zlib_max_base64")],
    [name |-> <<"g","z","i","p","_","m","a","x","_","b","a","s","e","6","4">>, fn |-> Def("gzip_max_base64")],
    [name |-> <<"a","s","c","i","i","_","c","o","d","e","s","_","d","a","s","h">>, fn |-> Def("ascii_codes_dash")],
    [name |-> <<"a","s","c","i","i","_","c","o","d","e","s","_","t","o","_","h","e","x">>, fn |-> Def("ascii_codes_to_hex")],
    [name |-> <<"b","a","s","e","6","4","_","n","o","_","p","a","d">>, fn |-> Def("base64_no_pad")],
    [name |-> <<"b","a","s","e","8","5","_","r","o","t","1","3">>, fn |-> Def("base85_rot13")],
    [name |-> <<"b","a","s","e","3","2","_","n","o","_","p","a","d">>, fn |-> Def("base32_no_pad")],
    [name |-> <<"r","e","m","o","v","e","_","w","h","i","t","e","s","p","a","c","e">>, fn |-> Def("remove_whitespace")],
    [name |-> <<"u","n","i","c","o","d","e","_","c","o","d","e","p","o","i","n","t","s","_","s","p","a","c","e">>, fn |-> Def("unicode_codepoints_space")],
    [name |-> <<"e","s","c","a","p","e","_","q","u","o","t","e","s">>, fn |-> Def("escape_quotes")],
    [name |-> <<"e","s","c","a","p","e","_","a","p","o","s","t","r","o","p","h","e","s">>, fn |-> Def("escape_apostrophes")],
    [name |-> <<"b","a","s","e","6","4","_","r","e","p","l","a","c","e","_","a">>, fn |-> Def("base64_replace_a")],
    [name |-> <<"q","p","_","c","u","s","t","o","m">>, fn |-> Def("qp_custom")],
    [name |-> <<"h","e","x","_","t","h","e","n","_","b","a","s","e","6","4">>, fn |-> Def("hex_then_base64")],
    [name |-> <<"b","a","s","e","6","4","_","t","h","e","n","_","h","e","x">>, fn |-> Def("base64_then_hex")],
    [name |-> <<"z","l","i","b","_","t","h","e","n","_","h","e","x">>, fn |-> Def("zlib_then_hex")],
    [name |-> <<"l","z","m","a","_","t","h","e","n","_","h","e","x">>, fn |-> Def("lzma_then_hex")]
>>

----------------------------------------------------------------------------
(* Library conversions the transforms are built from.                      *)

IsSurrogate(c) == c >= 55296 /\ c <= 57343

\* str.encode('utf-8') raises UnicodeEncodeError on a lone surrogate
CanUtf8(s) == \A k \in 1..Len(s) : ~IsSurrogate(s[k])

Utf8Char(c) ==
    IF c < 128 THEN <<c>>
    ELSE IF c < 2048 THEN <<192 + c \div 64, 128 + (c % 64)>>
    ELSE IF c < 65536
    THEN <<224 + c \div 4096, 128 + ((c \div 64) % 64), 128 + (c % 64)>>
    ELSE <<240 + c \div 262144, 128 + ((c \div 4096) % 64),
           128 + ((c \div 64) % 64), 128 + (c % 64)>>

\* s.encode('utf-8') of an encodable s
Utf8(s) == FlatMap(Utf8Char, s)

\* f(s.encode('utf-8')): the exception of the encoding propagates
ViaUtf8(s, f(_)) ==
    IF CanUtf8(s) THEN Ok(f(Utf8(s))) ELSE Raise("UnicodeEncodeError")

\* str.upper() and str.lower(), used by the code on ASCII text only
UpperChar(c) == IF c >= 97 /\ c <= 122 THEN c - 32 ELSE c
LowerChar(c) == IF c >= 65 /\ c <= 90 THEN c + 32 ELSE c
Upper(s) == [k \in 1..Len(s) |-> UpperChar(s[k])]
Lower(s) == [k \in 1..Len(s) |-> LowerChar(s[k])]

RECURSIVE RStrip(_, _)
\* s.rstrip(c) for one character c
RStrip(s, c) ==
    IF s # <<>> /\ s[Len(s)] = c THEN RStrip(SubSeq(s, 1, Len(s) - 1), c) ELSE s

\* s.ljust(width, c)
LJust(s, width, c) == s \o [k \in 1..(width - Len(s)) |-> c]

\* s.replace(c, t) for one character c
Replace(s, c, t) == FlatMap(LAMBDA x : IF x = c THEN t ELSE <<x>>, s)

\* sep.join(parts)
Join(sep, parts) ==
    Concat([k \in 1..(2 * Len(parts) - 1) |->
               IF k % 2 = 1 THEN parts[(k + 1) \div 2] ELSE sep])

HexDigits == T(<<"0","1","2","3","4","5","6","7","8","9","a","b","c","d","e","f">>)

RECURSIVE DigitsOf(_, _)
\* the digits of n in a base, most significant first
DigitsOf(n, base) ==
    IF n < base THEN <<n>> ELSE Append(DigitsOf(n \div base, base), n % base)

\* str(n) of a natural n
Dec(n) == [k \in 1..Len(DigitsOf(n, 10)) |-> 48 + DigitsOf(n, 10)[k]]

\* format(n, 'x')
FmtHex(n) == [k \in 1..Len(DigitsOf(n, 16)) |-> HexDigits[DigitsOf(n, 16)[k] + 1]]

\* format(n, '0<width>x'): zero-padded on the left, never truncated
FmtHexPad(n, width) ==
    [k \in 1..(width - Len(FmtHex(n))) |-> 48] \o FmtHex(n)

\* format spec 'x' in place of '02x': no leading zero
Fmt02x_unpadded(b) ==
    IF b < 16 THEN <<HexDigits[b + 1]>>
    ELSE <<HexDigits[b \div 16 + 1], HexDigits[(b % 16) + 1]>>

\* '%02x' % byte
Fmt02x(b) == <<HexDigits[b \div 16 + 1], HexDigits[(b % 16) + 1]>>

\* binascii.hexlify(b).decode('ascii')
hexlify(b) == FlatMap(Fmt02x, b)

B64Alphabet == T(<<
    "A","B","C","D","E","F","G","H","I","J","K","L","M","N","O","P",
    "Q","R","S","T","U","V","W","X","Y","Z","a","b","c","d","e","f",
    "g","h","i","j","k","l","m","n","o","p","q","r","s","t","u","v",
    "w","x","y","z","0","1","2","3","4","5","6","7","8","9","+","/">>)

\* the 4 characters of the g-th group of 3 bytes, '=' padded in the last one
B64Group(b, g) ==
    LET b1 == b[3 * g - 2]
        n == Len(b) - 3 * (g - 1)
        b2 == IF n >= 2 THEN b[3 * g - 1] ELSE 0
        b3 == IF n >= 3 THEN b[3 * g] ELSE 0
    IN  <<B64Alphabet[b1 \div 4 + 1],
          B64Alphabet[(b1 % 4) * 16 + b2 \div 16 + 1],
          IF n >= 2 THEN B64Alphabet[(b2 % 16) * 4 + b3 \div 64 + 1] ELSE 61,
          IF n >= 3 THEN B64Alphabet[(b3 % 64) + 1] ELSE 61>>

\* base64.b64encode(b).decode('ascii')
b64encode(b) == Concat([g \in 1..((Len(b) + 2) \div 3) |-> B64Group(b, g)])

\* base64.urlsafe_b64encode: '+' becomes '-', '/' becomes '_'
urlsafe_b64encode(b) ==
    [k \in 1..Len(b64encode(b)) |->
        IF b64encode(b)[k] = 43 THEN 45
        ELSE IF b64encode(b)[k] = 47 THEN 95 ELSE b64encode(b)[k]]

\* the bits of a byte string, most significant first
Bits(b) == FlatMap(LAMBDA x : [k \in 1..8 |-> (x \div (2 ^ (8 - k))) % 2], b)

B32Alphabet == T(<<
    "A","B","C","D","E","F","G","H","I","J","K","L","M","N","O","P",
    "Q","R","S","T","U","V","W","X","Y","Z","2","3","4","5","6","7">>)

\* the value of the k-th group of 5 bits, the last group padded with zeros
Quintet(bits, k) ==
    LET at(n) == IF n <= Len(bits) THEN bits[n] ELSE 0
    IN  16 * at(5 * k - 4) + 8 * at(5 * k - 3) + 4 * at(5 * k - 2)
          + 2 * at(5 * k - 1) + at(5 * k)

\* base64.b32encode(b).decode('ascii'): 8 characters per 5 bytes, '=' padded
b32encode(b) ==
    LET bits == Bits(b)
        n == (Len(bits) + 4) \div 5
    IN  [k \in 1..(8 * ((Len(b) + 4) \div 5)) |->
            IF k <= n THEN B32Alphabet[Quintet(bits, k) + 1] ELSE 61]

B85Alphabet == T(<<
    "0","1","2","3","4","5","6","7","8","9",
    "A","B","C","D","E","F","G","H","I","J","K","L","M","N","O","P",
    "Q","R","S","T","U","V","W","X","Y","Z","a","b","c","d","e","f",
    "g","h","i","j","k","l","m","n","o","p","q","r","s","t","u","v",
    "w","x","y","z","!","#","$","%","&","(",")","*","+","-",";","<",
    "=",">","?","@","^","_","GRAVE","{","|","}","~">>)

\* _a85chars: the 85 characters from '!' on
A85Alphabet == [k \in 1..85 |-> 32 + k]

RECURSIVE DivWord(_, _, _)
\* quotient (as bytes) and remainder of a big-endian byte number divided by d
DivWord(w, d, carry) ==
    IF w = <<>> THEN [q |-> <<>>, r |-> carry]
    ELSE LET cur == carry * 256 + w[1]
             rest == DivWord(Tail(w), d, cur % d)
         IN  [q |-> <<cur \div d>> \o rest.q, r |-> rest.r]

RECURSIVE Word85(_, _)
\* the n least significant base-85 digits of a 32-bit word given as 4 bytes;
\* the word is divided bytewise because it does not fit a machine integer here
Word85(w, n) ==
    IF n = 0 THEN <<>>
    ELSE Append(Word85(DivWord(w, 85, 0).q, n - 1), DivWord(w, 85, 0).r)

\* the characters of the g-th group of 4 bytes in base64._85encode(b, chars,
\* chars2, foldnuls=...): 5 per group ('z' for a zero group when folding); the
\* last group is zero-padded and then cut by the padding length
Group85(b, g, alphabet, foldnuls) ==
    LET n == Len(b) - 4 * (g - 1)
        padding == IF n >= 4 THEN 0 ELSE 4 - n
        word == [k \in 1..4 |-> IF k <= n THEN b[4 * (g - 1) + k] ELSE 0]
        ds == Word85(word, 5)
        chunk == [k \in 1..5 |-> alphabet[ds[k] + 1]]
    IN  IF foldnuls /\ word = <<0, 0, 0, 0>> /\ padding = 0 THEN <<122>>
        ELSE SubSeq(chunk, 1, 5 - padding)

Encode85(b, alphabet, foldnuls) ==
    Concat([g \in 1..((Len(b) + 3) \div 4) |-> Group85(b, g, alphabet, foldnuls)])

b85encode(b) == Encode85(b, B85Alphabet, FALSE)

a85encode(b) == Encode85(b, A85Alphabet, TRUE)

\* '=XX' with upper-case digits
QpEscape(x) == <<61>> \o Upper(Fmt02x(x))

\* binascii.b2a_qp detects CRLF line ends from the first '\n' of the data
QpCrlf(b) ==
    \E k \in 2..Len(b) : b[k] = 10 /\ b[k - 1] = 13
                         /\ \A n \in 1..(k - 1) : b[n] # 10

\* one pass of the encoding loop of binascii.b2a_qp(data, quotetabs=False,
\* istext=True, header=False) with its line limit of 76: st.in is the read
\* position, st.o the output so far, st.linelen the length of its last line
QpStep(st, b, crlf) ==
    LET in == st.in
        o == st.o
        c == b[in]
        isLast == in = Len(b)
        nl == IF crlf THEN <<13, 10>> ELSE <<10>>
        mustQuote ==
            \/ c > 126
            \/ c = 61
            \/ c = 46 /\ st.linelen = 0 /\ (isLast \/ b[in + 1] \in {10, 13, 0})
            \/ c \in {9, 32} /\ isLast
            \/ c < 33 /\ c \notin {13, 10, 9, 32}
    IN  IF mustQuote
        THEN IF st.linelen + 3 >= 76
             THEN [in |-> in + 1, o |-> o \o <<61>> \o nl \o QpEscape(c), linelen |-> 3]
             ELSE [in |-> in + 1, o |-> o \o QpEscape(c), linelen |-> st.linelen + 3]
        ELSE IF c = 10 \/ (~isLast /\ c = 13 /\ b[in + 1] = 10)
        THEN [in |-> IF c = 13 THEN in + 2 ELSE in + 1,
              o |-> (IF o # <<>> /\ o[Len(o)] \in {32, 9}
                     THEN SubSeq(o, 1, Len(o) - 1) \o QpEscape(o[Len(o)])
                     ELSE o) \o nl,
              linelen |-> 0]
        ELSE IF ~isLast /\ b[in + 1] # 10 /\ st.linelen + 1 >= 76
        THEN [in |-> in + 1, o |-> o \o <<61>> \o nl \o <<c>>, linelen |-> 1]
        ELSE [in |-> in + 1, o |-> Append(o, c), linelen |-> st.linelen + 1]

RECURSIVE QpLoop(_, _, _, _, _)
\* the passes of the loop that start at the positions lo..hi (a position the
\* pass before has consumed starts none), run by halves: the first half is
\* computed (its read position is looked at) before the second half starts
QpLoop(st, b, crlf, lo, hi) ==
    IF lo > hi THEN st
    ELSE IF lo = hi THEN (IF st.in = lo THEN QpStep(st, b, crlf) ELSE st)
    ELSE LET half == QpLoop(st, b, crlf, lo, (lo + hi) \div 2)
         IN  IF half.in > hi THEN half
             ELSE QpLoop(half, b, crlf, (lo + hi) \div 2 + 1, hi)

\* quopri.encodestring(b).decode('ascii')
qp_encodestring(b) ==
    QpLoop([in |-> 1, o |-> <<>>, linelen |-> 0], b, QpCrlf(b), 1, Len(b)).o

RECURSIVE SortedSet(_)
\* sorted(set) of code points
SortedSet(S) ==
    IF S = {} THEN <<>>
    ELSE LET lo == CHOOSE x \in S : \A y \in S : x <= y
         IN  <<lo>> \o SortedSet(S \ {lo})

\* encodings/punycode.py: T(j, bias)
PunyT(jj, bias) ==
    LET res == 36 * (jj + 1) - bias
    IN  IF res < 1 THEN 1 ELSE IF res > 26 THEN 26 ELSE res

PunyDigits == T(<<
    "a","b","c","d","e","f","g","h","i","j","k","l","m","n","o","p","q","r",
    "s","t","u","v","w","x","y","z","0","1","2","3","4","5","6","7","8","9">>)

RECURSIVE generate_generalized_integer(_, _, _)
\* encodings/punycode.py: generate_generalized_integer(N, bias), from digit jj
generate_generalized_integer(N, bias, jj) ==
    LET t == PunyT(jj, bias)
    IN  IF N < t THEN <<PunyDigits[N + 1]>>
        ELSE <<PunyDigits[t + ((N - t) % (36 - t)) + 1]>>
             \o generate_generalized_integer((N - t) \div (36 - t), bias, jj + 1)

RECURSIVE AdaptLoop(_, _)
AdaptLoop(delta, divisions) ==
    IF delta > 455 THEN AdaptLoop(delta \div 35, divisions + 36)
    ELSE divisions + ((36 * delta) \div (delta + 38))

\* encodings/punycode.py: adapt(delta, first, numchars)
adapt(delta, first, numchars) ==
    LET d1 == IF first THEN delta \div 700 ELSE delta \div 2
    IN  AdaptLoop(d1 + (d1 \div numchars), 0)

RECURSIVE generate_integers(_, _, _, _)
\* encodings/punycode.py: generate_integers(baselen, deltas), from delta number
\* points (0-based) with the current bias
generate_integers(baselen, deltas, points, bias) ==
    IF points >= Len(deltas) THEN <<>>
    ELSE generate_generalized_integer(deltas[points + 1], bias, 0)
         \o generate_integers(baselen, deltas, points + 1,
                adapt(deltas[points + 1], points = 0, baselen + points + 1))

RECURSIVE selective_find(_, _, _, _)
\* encodings/punycode.py: selective_find(str, char, index, pos), 0-based pos
selective_find(s, char, index, pos) ==
    IF pos + 1 = Len(s) THEN <<-1, -1>>
    ELSE IF s[pos + 2] = char THEN <<index + 1, pos + 1>>
    ELSE IF s[pos + 2] < char THEN selective_find(s, char, index + 1, pos + 1)
    ELSE selective_find(s, char, index, pos + 1)

RECURSIVE UnsortChar(_, _, _, _, _, _)
\* the inner loop of insertion_unsort for one character: the deltas of its
\* occurrences and the index of the last one
UnsortChar(s, char, index, pos, delta, oldindex) ==
    LET f == selective_find(s, char, index, pos)
    IN  IF f[1] = -1 THEN [result |-> <<>>, oldindex |-> oldindex]
        ELSE LET rest == UnsortChar(s, char, f[1], f[2], 0, f[1])
             IN  [result |-> <<delta + f[1] - oldindex - 1>> \o rest.result,
                  oldindex |-> rest.oldindex]

RECURSIVE insertion_unsort(_, _, _, _)
\* encodings/punycode.py: insertion_unsort(str, extended)
insertion_unsort(s, extended, oldchar, oldindex) ==
    IF extended = <<>> THEN <<>>
    ELSE LET char == Head(extended)
             curlen == Cardinality({k \in 1..Len(s) : s[k] < char})
             one == UnsortChar(s, char, -1, -1,
                               (curlen + 1) * (char - oldchar), oldindex)
         IN  one.result \o insertion_unsort(s, Tail(extended), char, one.oldindex)

\* s.encode('punycode').decode('ascii'); the codec accepts every str
punycode_encode(s) ==
    LET base == SelectSeq(s, LAMBDA c : c < 128)
        extended == SortedSet({s[k] : k \in {n \in 1..Len(s) : s[n] >= 128}})
        deltas == insertion_unsort(s, extended, 128, -1)
        ints == generate_integers(Len(base), deltas, 0, 72)
    IN  IF base # <<>> THEN base \o <<45>> \o ints ELSE ints

\* n as 4 bytes, least significant first
LE32(n) == [k \in 1..4 |-> (n \div (256 ^ (k - 1))) % 256]

(* The compressors.  Container headers are the real ones; the compressed   *)
(* body and the check values are not computed and are represented by the   *)
(* data itself: what the transforms rely on is that the result is a byte   *)
(* string fixed by the algorithm, the level, the data and, for gzip, the   *)
(* clock reading stored in the header.                                     *)

\* gzip.compress(data, compresslevel): mtime is int(time.time())
gzip_compress(b, compresslevel, mtime) ==
    <<31, 139, 8, 0>> \o LE32(mtime)
    \o <<IF compresslevel = 9 THEN 2 ELSE IF compresslevel = 1 THEN 4 ELSE 0, 255>>
    \o b \o LE32(Len(b))

\* zlib.compress(data, level)
zlib_compress(b, level) == <<120, IF level = 9 THEN 218 ELSE 156>> \o b

\* bz2.compress(data)
bz2_compress(b) == T(<<"B","Z","h","9">>) \o b

\* lzma.compress(data)
lzma_compress(b) == <<253, 55, 122, 88, 90, 0>> \o b

\* str.encode('utf-16le') / ('utf-16be') raise on a lone surrogate
Utf16Units(c) ==
    IF c < 65536 THEN <<c>>
    ELSE <<55296 + ((c - 65536) \div 1024), 56320 + ((c - 65536) % 1024)>>

Utf16(s, little) ==
    FlatMap(LAMBDA c :
        FlatMap(LAMBDA u : IF little THEN <<u % 256, u \div 256>>
                           ELSE <<u \div 256, u % 256>>, Utf16Units(c)), s)

(* The byte encodings of BYTE_ENCODINGS with errors='replace': a character  *)
(* the encoding cannot represent becomes '?'.                              *)

\* the characters of bytes 128..255 in cp1251 (-1: the byte is unassigned)
Cp1251High == <<
    1026, 1027, 8218, 1107, 8222, 8230, 8224, 8225, 8364, 8240, 1033, 8249,
    1034, 1036, 1035, 1039, 1106, 8216, 8217, 8220, 8221, 8226, 8211, 8212,
    -1, 8482, 1113, 8250, 1114, 1116, 1115, 1119, 160, 1038, 1118, 1032,
    164, 1168, 166, 167, 1025, 169, 1028, 171, 172, 173, 174, 1031,
    176, 177, 1030, 1110, 1169, 181, 182, 183, 1105, 8470, 1108, 187,
    1112, 1029, 1109, 1111, 1040, 1041, 1042, 1043, 1044, 1045, 1046, 1047,
    1048, 1049, 1050, 1051, 1052, 1053, 1054, 1055, 1056, 1057, 1058, 1059,
    1060, 1061, 1062, 1063, 1064, 1065, 1066, 1067, 1068, 1069, 1070, 1071,
    1072, 1073, 1074, 1075, 1076, 1077, 1078, 1079, 1080, 1081, 1082, 1083,
    1084, 1085, 1086, 1087, 1088, 1089, 1090, 1091, 1092, 1093, 1094, 1095,
    1096, 1097, 1098, 1099, 1100, 1101, 1102, 1103
>>

\* the characters of bytes 128..255 in cp1252 (-1: the byte is unassigned)
Cp1252High == <<
    8364, -1, 8218, 402, 8222, 8230, 8224, 8225, 710, 8240, 352, 8249,
    338, -1, 381, -1, -1, 8216, 8217, 8220, 8221, 8226, 8211, 8212,
    732, 8482, 353, 8250, 339, -1, 382, 376, 160, 161, 162, 163,
    164, 165, 166, 167, 168, 169, 170, 171, 172, 173, 174, 175,
    176, 177, 178, 179, 180, 181, 182, 183, 184, 185, 186, 187,
    188, 189, 190, 191, 192, 193, 194, 195, 196, 197, 198, 199,
    200, 201, 202, 203, 204, 205, 206, 207, 208, 209, 210, 211,
    212, 213, 214, 215, 216, 217, 218, 219, 220, 221, 222, 223,
    224, 225, 226, 227, 228, 229, 230, 231, 232, 233, 234, 235,
    236, 237, 238, 239, 240, 241, 242, 243, 244, 245, 246, 247,
    248, 249, 250, 251, 252, 253, 254, 255
>>

\* one character in a single-byte code page
CharmapChar(c, high) ==
    IF c < 128 THEN <<c>>
    ELSE IF \E k \in 1..128 : high[k] = c
    THEN <<127 + (CHOOSE k \in 1..128 : high[k] = c)>>
    ELSE <<63>>

\* the characters UTF-7 writes as themselves: ASCII except NUL, the other
\* control characters but tab, LF and CR, and '+', '\', '~', DEL
Utf7Direct(c) ==
    /\ c > 0 /\ c < 127
    /\ c >= 32 \/ c \in {9, 10, 13}
    /\ c \notin {43, 92, 126}

\* the characters of the base64 alphabet
IsBase64(c) ==
    \/ c >= 65 /\ c <= 90
    \/ c >= 97 /\ c <= 122
    \/ c >= 48 /\ c <= 57
    \/ c \in {43, 47}

\* the value of up to 6 bits, padded with zeros on the right
Sextet(bits) ==
    LET at(n) == IF n <= Len(bits) THEN bits[n] ELSE 0
    IN  32 * at(1) + 16 * at(2) + 8 * at(3) + 4 * at(4) + 2 * at(5) + at(6)

\* the base64 characters of the complete sextets at the head of the buffer
Drain(bits) ==
    [k \in 1..(Len(bits) \div 6) |->
        B64Alphabet[Sextet(SubSeq(bits, 6 * k - 5, 6 * k)) + 1]]

\* the bits left in the buffer after Drain
Left(bits) == SubSeq(bits, Len(bits) - (Len(bits) % 6) + 1, Len(bits))

\* the 16 bits of each UTF-16 unit of a character
UnitBits(c) ==
    FlatMap(LAMBDA u : [k \in 1..16 |-> (u \div (2 ^ (16 - k))) % 2], Utf16Units(c))

\* the base64 character of the bits still in the buffer, if any
Utf7Flush(bits) == IF bits # <<>> THEN <<B64Alphabet[Sextet(bits) + 1]>> ELSE <<>>

\* one pass of the UTF-7 encoder's loop, for the character c: st.inShift says
\* whether a '+' sequence is open, st.bits holds the base64 bits not yet written
Utf7Step(st, c) ==
    LET buf == st.bits \o UnitBits(c)
    IN  IF st.inShift /\ Utf7Direct(c)
        THEN [o |-> st.o \o Utf7Flush(st.bits)
                    \o (IF IsBase64(c) \/ c = 45 THEN <<45>> ELSE <<>>) \o <<c>>,
              inShift |-> FALSE, bits |-> <<>>]
        ELSE IF st.inShift
        THEN [o |-> st.o \o Drain(buf), inShift |-> TRUE, bits |-> Left(buf)]
        ELSE IF c = 43
        THEN [o |-> st.o \o <<43, 45>>, inShift |-> FALSE, bits |-> <<>>]
        ELSE IF Utf7Direct(c)
        THEN [o |-> Append(st.o, c), inShift |-> FALSE, bits |-> <<>>]
        ELSE [o |-> st.o \o <<43>> \o Drain(buf), inShift |-> TRUE, bits |-> Left(buf)]

RECURSIVE Utf7Loop(_, _, _, _)
\* the passes of the loop for the characters lo..hi, run by halves: the
\* first half is computed before the second half starts
Utf7Loop(st, s, lo, hi) ==
    IF lo > hi THEN st
    ELSE IF lo = hi THEN Utf7Step(st, s[lo])
    ELSE LET half == Utf7Loop(st, s, lo, (lo + hi) \div 2)
         IN  IF half.inShift \in BOOLEAN
             THEN Utf7Loop(half, s, (lo + hi) \div 2 + 1, hi)
             ELSE half

\* s.encode('utf-7'): after the loop the buffer is flushed and an open
\* sequence is closed with '-'
utf7_encode(s) ==
    LET st == Utf7Loop([o |-> <<>>, inShift |-> FALSE, bits |-> <<>>], s, 1, Len(s))
    IN  st.o \o Utf7Flush(st.bits) \o (IF st.inShift THEN <<45>> ELSE <<>>)

\* s.encode(encoding, errors='replace')
EncodeReplace(s, encoding) ==
    CASE encoding = <<"u","t","f","-","8">> ->
           FlatMap(LAMBDA c : IF IsSurrogate(c) THEN <<63>> ELSE Utf8Char(c), s)
      [] encoding = <<"l","a","t","i","n","1">> ->
           FlatMap(LAMBDA c : IF c < 256 THEN <<c>> ELSE <<63>>, s)
      [] encoding = <<"c","p","1","2","5","1">> ->
           FlatMap(LAMBDA c : CharmapChar(c, Cp1251High), s)
      [] encoding = <<"c","p","1","2","5","2">> ->
           FlatMap(LAMBDA c : CharmapChar(c, Cp1252High), s)
      [] encoding = <<"u","t","f","-","1","6","l","e">> ->
           Utf16([k \in 1..Len(s) |-> IF IsSurrogate(s[k]) THEN 63 ELSE s[k]], TRUE)
      [] encoding = <<"u","t","f","-","1","6","b","e">> ->
           Utf16([k \in 1..Len(s) |-> IF IsSurrogate(s[k]) THEN 63 ELSE s[k]], FALSE)
      [] encoding = <<"u","t","f","-","7">> -> utf7_encode(s)

\* str.isdigit() for the code points below U+0250
IsDigit(c) == (c >= 48 /\ c <= 57) \/ c \in {178, 179, 185}

RECURSIVE Shuffle(_, _, _)
\* random.shuffle(x): for i from len(x)-1 down to 1, swap x[i] and x[randbelow(i+1)];
\* the draws are the mixed-radix digits of seed
Shuffle(x, k, seed) ==
    IF k < 1 THEN x
    ELSE LET r == seed % (k + 1)
             y == [n \in 1..Len(x) |->
                      IF n = k + 1 THEN x[r + 1] ELSE IF n = r + 1 THEN x[k + 1] ELSE x[n]]
         IN  Shuffle(y, k - 1, seed \div (k + 1))

\* the characters urllib.parse.quote never escapes
AlwaysSafe(c) ==
    \/ c >= 65 /\ c <= 90
    \/ c >= 97 /\ c <= 122
    \/ c >= 48 /\ c <= 57
    \/ c \in {95, 46, 45, 126}

\* '%{:02X}'.format(byte)
PctUpper(b) == <<37>> \o Upper(Fmt02x(b))

\* urllib.parse.quote(s, safe): '' is returned as it is, otherwise the UTF-8
\* bytes outside the safe set are percent-escaped
quote(s, safe) ==
    IF s = <<>> THEN Ok(s)
    ELSE ViaUtf8(s, LAMBDA b :
             FlatMap(LAMBDA x : IF AlwaysSafe(x) \/ x \in safe THEN <<x>>
                                ELSE PctUpper(x), b))

IsHexDigit(c) ==
    (c >= 48 /\ c <= 57) \/ (c >= 65 /\ c <= 70) \/ (c >= 97 /\ c <= 102)

HexValue(c) == IF c <= 57 THEN c - 48 ELSE IF c <= 70 THEN c - 55 ELSE c - 87

\* one step of percent-decoding at position st.in: '%' and two hex digits give
\* a byte, any other character (a lone '%' too) stays
UnquoteStep(st, s) ==
    LET in == st.in
    IN  IF s[in] = 37 /\ Len(s) >= in + 2 /\ IsHexDigit(s[in + 1]) /\ IsHexDigit(s[in + 2])
        THEN [in |-> in + 3,
              o |-> Append(st.o, 16 * HexValue(s[in + 1]) + HexValue(s[in + 2]))]
        ELSE [in |-> in + 1, o |-> Append(st.o, s[in])]

RECURSIVE UnquoteLoop(_, _, _, _)
UnquoteLoop(st, s, lo, hi) ==
    IF lo > hi THEN st
    ELSE IF lo = hi THEN (IF st.in = lo THEN UnquoteStep(st, s) ELSE st)
    ELSE LET half == UnquoteLoop(st, s, lo, (lo + hi) \div 2)
         IN  IF half.in > hi THEN half
             ELSE UnquoteLoop(half, s, (lo + hi) \div 2 + 1, hi)

\* urllib.parse.unquote_to_bytes on ASCII text
unquote_to_bytes(s) == UnquoteLoop([in |-> 1, o |-> <<>>], s, 1, Len(s)).o

IsCont(b, k) == k <= Len(b) /\ b[k] >= 128 /\ b[k] <= 191

\* whether b[k] can follow the lead byte b[k-1] of a 3- or 4-byte sequence
Second(b, k, lo, hi) == k <= Len(b) /\ b[k] >= lo /\ b[k] <= hi

\* one step of bytes.decode('utf-8', 'replace') at position st.in: a
\* well-formed sequence gives its character, a maximal ill-formed part one U+FFFD
Utf8DecodeStep(st, b) ==
    LET k == st.in
        x == b[k]
        lo == IF x = 224 THEN 160 ELSE IF x = 240 THEN 144 ELSE 128
        hi == IF x = 237 THEN 159 ELSE IF x = 244 THEN 143 ELSE 191
        put(c, n) == [in |-> k + n, o |-> Append(st.o, c)]
    IN  IF x < 128 THEN put(x, 1)
        ELSE IF x >= 194 /\ x <= 223
        THEN IF IsCont(b, k + 1) THEN put((x - 192) * 64 + (b[k + 1] - 128), 2)
             ELSE put(65533, 1)
        ELSE IF x >= 224 /\ x <= 239
        THEN IF ~Second(b, k + 1, lo, hi) THEN put(65533, 1)
             ELSE IF ~IsCont(b, k + 2) THEN put(65533, 2)
             ELSE put((x - 224) * 4096 + (b[k + 1] - 128) * 64 + (b[k + 2] - 128), 3)
        ELSE IF x >= 240 /\ x <= 244
        THEN IF ~Second(b, k + 1, lo, hi) THEN put(65533, 1)
             ELSE IF ~IsCont(b, k + 2) THEN put(65533, 2)
             ELSE IF ~IsCont(b, k + 3) THEN put(65533, 3)
             ELSE put((x - 240) * 262144 + (b[k + 1] - 128) * 4096
                        + (b[k + 2] - 128) * 64 + (b[k + 3] - 128), 4)
        ELSE put(65533, 1)

RECURSIVE Utf8DecodeLoop(_, _, _, _)
Utf8DecodeLoop(st, b, lo, hi) ==
    IF lo > hi THEN st
    ELSE IF lo = hi THEN (IF st.in = lo THEN Utf8DecodeStep(st, b) ELSE st)
    ELSE LET half == Utf8DecodeLoop(st, b, lo, (lo + hi) \div 2)
         IN  IF half.in > hi THEN half
             ELSE Utf8DecodeLoop(half, b, (lo + hi) \div 2 + 1, hi)

\* bytes.decode('utf-8', 'replace')
Utf8DecodeReplace(b) == Utf8DecodeLoop([in |-> 1, o |-> <<>>], b, 1, Len(b)).o

\* the maximal runs of ASCII and of non-ASCII characters of s, as pairs of
\* first and last position (the split by _asciire)
Runs(s) ==
    LET starts == {k \in 1..Len(s) : k = 1 \/ ((s[k] < 128) # (s[k - 1] < 128))}
        endOf(k) == CHOOSE e \in k..Len(s) :
                        /\ e = Len(s) \/ (e + 1) \in starts
                        /\ \A n \in (k + 1)..e : n \notin starts
    IN  [r \in 1..Cardinality(starts) |->
            LET k == CHOOSE x \in starts : Cardinality({y \in starts : y < x}) = r - 1
            IN  <<k, endOf(k)>>]

\* urllib.parse.unquote(s): text without '%' is returned as it is; otherwise
\* each ASCII run is percent-decoded and read as UTF-8 with errors='replace'
unquote(s) ==
    IF \A k \in 1..Len(s) : s[k] # 37 THEN s
    ELSE Concat([r \in 1..Len(Runs(s)) |->
            LET run == SubSeq(s, Runs(s)[r][1], Runs(s)[r][2])
            IN  IF run[1] < 128 THEN Utf8DecodeReplace(unquote_to_bytes(run)) ELSE run])

\* a rot_13 table with the lower-case letters only
Rot13Char_lower_only(c) ==
    IF c >= 97 /\ c <= 122 THEN 97 + ((c - 97 + 13) % 26) ELSE c

\* codecs.encode(s, 'rot_13')
Rot13Char(c) ==
    IF c >= 65 /\ c <= 90 THEN 65 + ((c - 65 + 13) % 26)
    ELSE IF c >= 97 /\ c <= 122 THEN 97 + ((c - 97 + 13) % 26)
    ELSE c
rot_13(s) == [k \in 1..Len(s) |-> Rot13Char(s[k])]

\* the five characters the HTML transforms escape: < > & " '
HtmlSpecial == {60, 62, 38, 34, 39}

\* html.escape(s, quote=True)
html_escape(s) ==
    FlatMap(LAMBDA c :
        IF c = 38 THEN T(<<"&","a","m","p",";">>)
        ELSE IF c = 60 THEN T(<<"&","l","t",";">>)
        ELSE IF c = 62 THEN T(<<"&","g","t",";">>)
        ELSE IF c = 34 THEN T(<<"&","q","u","o","t",";">>)
        ELSE IF c = 39 THEN T(<<"&","#","x","2","7",";">>)
        ELSE <<c>>, s)

\* s.encode('unicode_escape').decode('ascii')
UnicodeEscapeChar(c) ==
    IF c = 92 THEN <<92, 92>>
    ELSE IF c >= 32 /\ c < 127 THEN <<c>>
    ELSE IF c = 9 THEN T(<<"\\","t">>)
    ELSE IF c = 10 THEN T(<<"\\","n">>)
    ELSE IF c = 13 THEN T(<<"\\","r">>)
    ELSE IF c < 256 THEN T(<<"\\","x">>) \o FmtHexPad(c, 2)
    ELSE IF c < 65536 THEN T(<<"\\","u">>) \o FmtHexPad(c, 4)
    ELSE T(<<"\\","U">>) \o FmtHexPad(c, 8)

----------------------------------------------------------------------------
(* The functions of the module, in source order.  Each takes a str and     *)
(* gives the outcome of the call.                                          *)

noop(s) == Ok(s)

base64_std(s) == ViaUtf8(s, b64encode)

base64_urlsafe(s) == ViaUtf8(s, urlsafe_b64encode)

base64_nopad(s) == ViaUtf8(s, LAMBDA b : RStrip(b64encode(b), 61))

hex_lower(s) == ViaUtf8(s, hexlify)

hex_upper(s) == ViaUtf8(s, LAMBDA b : Upper(hexlify(b)))

backslash_x(s) ==
    ViaUtf8(s, LAMBDA b : FlatMap(LAMBDA x : T(<<"\\","x">>) \o Fmt02x(x), b))

url_encode_all(s) == quote(s, {})

url_encode_safe_slash(s) == quote(s, {47})

double_url(s) ==
    IF quote(s, {}).ok THEN quote(quote(s, {}).val, {}) ELSE quote(s, {})

html_escape_named(s) == Ok(html_escape(s))

html_numeric_dec(s) ==
    Ok(FlatMap(LAMBDA c : IF c > 127 \/ c \in HtmlSpecial
                          THEN <<38, 35>> \o Dec(c) \o <<59>> ELSE <<c>>, s))

html_numeric_hex(s) ==
    Ok(FlatMap(LAMBDA c : IF c > 127 \/ c \in HtmlSpecial
                          THEN <<38, 35, 120>> \o FmtHex(c) \o <<59>> ELSE <<c>>, s))

unicode_escape_python(s) == Ok(FlatMap(UnicodeEscapeChar, s))

js_escape(s) ==
    Ok(FlatMap(LAMBDA c :
        IF c = 10 THEN T(<<"\\","n">>)
        ELSE IF c = 13 THEN T(<<"\\","r">>)
        ELSE IF c = 9 THEN T(<<"\\","t">>)
        ELSE IF c \in {39, 34, 92} THEN <<92, c>>
        ELSE IF 32 <= c /\ c < 127 THEN <<c>>
        ELSE T(<<"\\","u">>) \o FmtHexPad(c, 4), s))

rot13(s) == Ok(rot_13(s))

rot47(s) ==
    Ok([k \in 1..Len(s) |->
           IF 33 <= s[k] /\ s[k] <= 126 THEN 33 + ((s[k] - 33 + 47) % 94) ELSE s[k]])

gzip_base64(s, mtime) == ViaUtf8(s, LAMBDA b : b64encode(gzip_compress(b, 9, mtime)))

zlib_base64(s) == ViaUtf8(s, LAMBDA b : b64encode(zlib_compress(b, 6)))

bz2_base64(s) == ViaUtf8(s, LAMBDA b : b64encode(bz2_compress(b)))

lzma_base64(s) == ViaUtf8(s, LAMBDA b : b64encode(lzma_compress(b)))

base32_std(s) == ViaUtf8(s, b32encode)

base85_std(s) == ViaUtf8(s, b85encode)

ascii85_std(s) == ViaUtf8(s, a85encode)

quoted_printable(s) == ViaUtf8(s, qp_encodestring)

\* try: return <outcome> / except Exception: return s
Try(outcome, s) == IF outcome.ok THEN outcome ELSE Ok(s)

punycode(s) == Try(Ok(punycode_encode(s)), s)

base64_custom_chars(s) ==
    ViaUtf8(s, LAMBDA b : Replace(Replace(b64encode(b), 43, <<95>>), 47, <<45>>))

base64_dot_pad(s) ==
    ViaUtf8(s, LAMBDA b : LJust(RStrip(b64encode(b), 61), Len(b64encode(b)), 46))

hex_colon(s) == ViaUtf8(s, LAMBDA b : Join(<<58>>, [k \in 1..Len(b) |-> Fmt02x(b[k])]))

hex_space(s) == ViaUtf8(s, LAMBDA b : Join(<<32>>, [k \in 1..Len(b) |-> Fmt02x(b[k])]))

hex_reverse(s) == ViaUtf8(s, LAMBDA b : hexlify(Reverse(b)))

rot5_digits(s) ==
    Ok([k \in 1..Len(s) |->
           IF IsDigit(s[k]) THEN ((s[k] - 48 + 5) % 10) + 48 ELSE s[k]])

rot13_base64(s) == ViaUtf8(rot_13(s), b64encode)

\* the chunks b64[i:i+76] for i in range(0, len(s)*2, 76), joined by '\n'
base64_mime(s) ==
    ViaUtf8(s, LAMBDA b :
        LET b64 == b64encode(b)
            n == (Len(s) * 2 + 75) \div 76
        IN  Join(<<10>>, [k \in 1..n |->
                SubSeq(b64, 76 * (k - 1) + 1, Min(76 * k, Len(b64)))]))

\* urllib.parse.quote_plus(s): ' ' becomes '+', the rest as quote(s, safe='')
url_encode_plus(s) ==
    IF quote(s, {32}).ok THEN Ok(Replace(quote(s, {32}).val, 32, <<43>>))
    ELSE quote(s, {32})

url_decode(s) == Try(Ok(unquote(s)), s)

html_escape_num_only(s) ==
    Ok(FlatMap(LAMBDA c : IF c \in HtmlSpecial
                          THEN <<38, 35>> \o Dec(c) \o <<59>> ELSE <<c>>, s))

hex_0x_prefix(s) ==
    ViaUtf8(s, LAMBDA b : FlatMap(LAMBDA x : T(<<"0","x">>) \o Fmt02x(x), b))

unicode_escape_upper(s) ==
    Ok(FlatMap(LAMBDA c : IF c > 127 THEN T(<<"\\","u">>) \o Upper(FmtHexPad(c, 4))
                          ELSE <<c>>, s))

\* shuffle_string with the exchange written as a single assignment,
\* lst[-1] = lst[r]: the last character is overwritten and not put back
shuffle_string_no_swap(s, seed) ==
    IF s = <<>> THEN Ok(s)
    ELSE Ok([n \in 1..Len(s) |-> IF n = Len(s) THEN s[(seed % Len(s)) + 1] ELSE s[n]])

shuffle_string(s, seed) == Ok(Shuffle(s, Len(s) - 1, seed))

repeat_2x(s) == Ok(s \o s)

repeat_3x(s) == Ok(s \o s \o s)

prefix_enc(s) == Ok(T(<<"E","N","C",":">>) \o s)

suffix_end(s) == Ok(s \o T(<<":","E","N","D">>))

reverse_string(s) == Ok(Reverse(s))

reverse_bytes_hex(s) == ViaUtf8(s, LAMBDA b : hexlify(Reverse(b)))

utf16le_bom_base64(s) ==
    IF CanUtf8(s) THEN Ok(b64encode(<<255, 254>> \o Utf16(s, TRUE)))
    ELSE Raise("UnicodeEncodeError")

utf16be_bom_base64(s) ==
    IF CanUtf8(s) THEN Ok(b64encode(<<254, 255>> \o Utf16(s, FALSE)))
    ELSE Raise("UnicodeEncodeError")

zlib_max_base64(s) == ViaUtf8(s, LAMBDA b : b64encode(zlib_compress(b, 9)))

gzip_max_base64(s, mtime) ==
    ViaUtf8(s, LAMBDA b : b64encode(gzip_compress(b, 9, mtime)))

ascii_codes_dash(s) == Ok(Join(<<45>>, [k \in 1..Len(s) |-> Dec(s[k])]))

ascii_codes_to_hex(s) == Ok(hexlify(FlatMap(Dec, s)))

base64_no_pad(s) == ViaUtf8(s, LAMBDA b : RStrip(b64encode(b), 61))

base85_rot13(s) == ViaUtf8(s, LAMBDA b : rot_13(b85encode(b)))

base32_no_pad(s) == ViaUtf8(s, LAMBDA b : RStrip(b32encode(b), 61))

\* remove_whitespace with count 1 in both replace calls: only the first
\* space and the first tab go
remove_whitespace_once(s) ==
    LET firstOf(x, c) == IF \E k \in 1..Len(x) : x[k] = c
                         THEN CHOOSE k \in 1..Len(x) : x[k] = c /\ \A m \in 1..(k - 1) : x[m] # c
                         ELSE 0
        without(x, k) == [m \in 1..(Len(x) - 1) |-> IF m < k THEN x[m] ELSE x[m + 1]]
        once(x, c) == IF firstOf(x, c) = 0 THEN x ELSE without(x, firstOf(x, c))
    IN  Ok(once(once(s, 32), 9))

remove_whitespace(s) == Ok(Replace(Replace(s, 32, <<>>), 9, <<>>))

unicode_codepoints_space(s) ==
    Ok(Join(<<32>>, [k \in 1..Len(s) |-> T(<<"U","+">>) \o Upper(FmtHexPad(s[k], 4))]))

escape_quotes(s) == Ok(Replace(s, 34, <<92, 34>>))

escape_apostrophes(s) == Ok(Replace(s, 39, <<92, 39>>))

base64_replace_a(s) == ViaUtf8(s, LAMBDA b : Replace(b64encode(b), 65, <<64>>))

qp_custom(s) ==
    ViaUtf8(s, LAMBDA b : Replace(qp_encodestring(b), 95, T(<<"=","5","F">>)))

hex_then_base64(s) == ViaUtf8(s, LAMBDA b : b64encode(hexlify(b)))

base64_then_hex(s) == ViaUtf8(s, LAMBDA b : hexlify(b64encode(b)))

zlib_then_hex(s) == ViaUtf8(s, LAMBDA b : hexlify(zlib_compress(b, 6)))

lzma_then_hex(s) == ViaUtf8(s, LAMBDA b : hexlify(lzma_compress(b)))

url_pct_lower(s) == IF quote(s, {}).ok THEN Ok(Lower(quote(s, {}).val)) ELSE quote(s, {})

percent_bytes_lower(s) ==
    ViaUtf8(s, LAMBDA b : FlatMap(LAMBDA x : <<37>> \o Fmt02x(x), b))

\* transforms.py:145
BYTE_ENCODINGS == <<
    <<"u","t","f","-","8">>, <<"l","a","t","i","n","1">>,
    <<"c","p","1","2","5","1">>, <<"c","p","1","2","5","2">>,
    <<"u","t","f","-","1","6","l","e">>, <<"u","t","f","-","1","6","b","e">>,
    <<"u","t","f","-","7">> >>

\* whether chr(c).encode(encoding) succeeds under errors='strict'
Representable(c, encoding) ==
    CASE encoding \in {<<"u","t","f","-","8">>, <<"u","t","f","-","1","6","l","e">>,
                       <<"u","t","f","-","1","6","b","e">>} -> ~IsSurrogate(c)
      [] encoding = <<"l","a","t","i","n","1">> -> c < 256
      [] encoding = <<"c","p","1","2","5","1">> ->
           c < 128 \/ \E k \in 1..128 : Cp1251High[k] = c
      [] encoding = <<"c","p","1","2","5","2">> ->
           c < 128 \/ \E k \in 1..128 : Cp1252High[k] = c
      [] encoding = <<"u","t","f","-","7">> -> TRUE

\* f_hex with s.encode(encoding) under the default errors='strict': a
\* character the encoding lacks raises, and the except branch returns s
f_hex_strict(encoding, s) ==
    IF \A k \in 1..Len(s) : Representable(s[k], encoding)
    THEN Try(Ok(hexlify(EncodeReplace(s, encoding))), s)
    ELSE Ok(s)

\* the inner functions of make_bytes_transform, bound to its encoding
f_hex(encoding, s) == Try(Ok(hexlify(EncodeReplace(s, encoding))), s)

f_b64(encoding, s) == Try(Ok(b64encode(EncodeReplace(s, encoding))), s)

f_pct(encoding, s) ==
    Try(Ok(FlatMap(LAMBDA x : <<37>> \o Upper(Fmt02x(x)), EncodeReplace(s, encoding))), s)

RECURSIVE QuoteTimes(_, _)
\* _nested_quote(s, n): quote(t, safe='') applied n times
QuoteTimes(outcome, n) ==
    IF n = 0 \/ ~outcome.ok THEN outcome
    ELSE QuoteTimes(quote(outcome.val, {}), n - 1)

nested_quote(s, n) == QuoteTimes(Ok(s), n)

----------------------------------------------------------------------------
(* Function objects and their application.                                 *)

\* make_bytes_transform(encoding, output): the inner function chosen by
\* output, closed over encoding
\* make_bytes_transform with inner functions that read the loop variable enc
\* when they are called: after the loops it is the last encoding
make_bytes_transform_late(encoding, output) ==
    CASE output = <<"h","e","x">> ->
           [kind |-> "f_hex", encoding |-> BYTE_ENCODINGS[Len(BYTE_ENCODINGS)]]
      [] output = <<"b","a","s","e","6","4">> ->
           [kind |-> "f_b64", encoding |-> BYTE_ENCODINGS[Len(BYTE_ENCODINGS)]]
      [] output = <<"p","e","r","c","e","n","t">> ->
           [kind |-> "f_pct", encoding |-> BYTE_ENCODINGS[Len(BYTE_ENCODINGS)]]
      [] OTHER -> [kind |-> "ValueError"]

make_bytes_transform(encoding, output) ==
    CASE output = <<"h","e","x">> -> [kind |-> "f_hex", encoding |-> encoding]
      [] output = <<"b","a","s","e","6","4">> -> [kind |-> "f_b64", encoding |-> encoding]
      [] output = <<"p","e","r","c","e","n","t">> -> [kind |-> "f_pct", encoding |-> encoding]
      [] OTHER -> [kind |-> "ValueError"]

\* (lambda n=i: (lambda s: _nested_quote(s, n)))(): n is bound when the loop
\* body runs
\* lambda s: _nested_quote(s, i) without the n=i binding: every entry reads
\* the loop variable when it is called, after the loop left it at 5
nested_lambda_late(n) == [kind |-> "nested", n |-> 5]

nested_lambda(n) == [kind |-> "nested", n |-> n]

\* make_chain(f1, f2): the closure chain over its two arguments
make_chain(f1, f2) == [kind |-> "chain", f1 |-> f1, f2 |-> f2]

\* the body of chain without its try/except: return f2(f1(s))
chain_uncaught(r1, r2, s) == IF r1.ok THEN r2 ELSE r1

\* the body of chain with the try around f2 only: a failure of the second
\* stage gives f1(s), a failure of the first stage gives s
chain_partial(r1, r2, s) == IF r1.ok /\ r2.ok THEN r2 ELSE IF r1.ok THEN r1 ELSE Ok(s)

\* the body of chain: try: return f2(f1(s)) / except Exception: return s,
\* given the outcome r1 of f1(s) and the outcome r2 of f2(f1(s))
chain(r1, r2, s) == IF r1.ok /\ r2.ok THEN r2 ELSE Ok(s)

\* a call of a module-level function; env carries what the call reads from
\* outside its argument: the clock (gzip) and the random source (shuffle)
CallDef(fn, s, env) ==
    CASE fn = "noop" -> noop(s)
      [] fn = "base64_std" -> base64_std(s)
      [] fn = "base64_urlsafe" -> base64_urlsafe(s)
      [] fn = "base64_nopad" -> base64_nopad(s)
      [] fn = "hex_lower" -> hex_lower(s)
      [] fn = "hex_upper" -> hex_upper(s)
      [] fn = "backslash_x" -> backslash_x(s)
      [] fn = "url_encode_all" -> url_encode_all(s)
      [] fn = "url_encode_safe_slash" -> url_encode_safe_slash(s)
      [] fn = "double_url" -> double_url(s)
      [] fn = "html_escape_named" -> html_escape_named(s)
      [] fn = "html_numeric_dec" -> html_numeric_dec(s)
      [] fn = "html_numeric_hex" -> html_numeric_hex(s)
      [] fn = "unicode_escape_python" -> unicode_escape_python(s)
      [] fn = "js_escape" -> js_escape(s)
      [] fn = "rot13" -> rot13(s)
      [] fn = "rot47" -> rot47(s)
      [] fn = "gzip_base64" -> gzip_base64(s, env.mtime)
      [] fn = "zlib_base64" -> zlib_base64(s)
      [] fn = "bz2_base64" -> bz2_base64(s)
      [] fn = "lzma_base64" -> lzma_base64(s)
      [] fn = "base32_std" -> base32_std(s)
      [] fn = "base85_std" -> base85_std(s)
      [] fn = "ascii85_std" -> ascii85_std(s)
      [] fn = "quoted_printable" -> quoted_printable(s)
      [] fn = "punycode" -> punycode(s)
      [] fn = "base64_custom_chars" -> base64_custom_chars(s)
      [] fn = "base64_dot_pad" -> base64_dot_pad(s)
      [] fn = "hex_colon" -> hex_colon(s)
      [] fn = "hex_space" -> hex_space(s)
      [] fn = "hex_reverse" -> hex_reverse(s)
      [] fn = "rot5_digits" -> rot5_digits(s)
      [] fn = "rot13_base64" -> rot13_base64(s)
      [] fn = "base64_mime" -> base64_mime(s)
      [] fn = "url_encode_plus" -> url_encode_plus(s)
      [] fn = "url_decode" -> url_decode(s)
      [] fn = "html_escape_num_only" -> html_escape_num_only(s)
      [] fn = "hex_0x_prefix" -> hex_0x_prefix(s)
      [] fn = "unicode_escape_upper" -> unicode_escape_upper(s)
      [] fn = "shuffle_string" -> shuffle_string(s, env.seed)
      [] fn = "repeat_2x" -> repeat_2x(s)
      [] fn = "repeat_3x" -> repeat_3x(s)
      [] fn = "prefix_enc" -> prefix_enc(s)
      [] fn = "suffix_end" -> suffix_end(s)
      [] fn = "reverse_string" -> reverse_string(s)
      [] fn = "reverse_bytes_hex" -> reverse_bytes_hex(s)
      [] fn = "utf16le_bom_base64" -> utf16le_bom_base64(s)
      [] fn = "utf16be_bom_base64" -> utf16be_bom_base64(s)
      [] fn = "zlib_max_base64" -> zlib_max_base64(s)
      [] fn = "gzip_max_base64" -> gzip_max_base64(s, env.mtime)
      [] fn = "ascii_codes_dash" -> ascii_codes_dash(s)
      [] fn = "ascii_codes_to_hex" -> ascii_codes_to_hex(s)
      [] fn = "base64_no_pad" -> base64_no_pad(s)
      [] fn = "base85_rot13" -> base85_rot13(s)
      [] fn = "base32_no_pad" -> base32_no_pad(s)
      [] fn = "remove_whitespace" -> remove_whitespace(s)
      [] fn = "unicode_codepoints_space" -> unicode_codepoints_space(s)
      [] fn = "escape_quotes" -> escape_quotes(s)
      [] fn = "escape_apostrophes" -> escape_apostrophes(s)
      [] fn = "base64_replace_a" -> base64_replace_a(s)
      [] fn = "qp_custom" -> qp_custom(s)
      [] fn = "hex_then_base64" -> hex_then_base64(s)
      [] fn = "base64_then_hex" -> base64_then_hex(s)
      [] fn = "zlib_then_hex" -> zlib_then_hex(s)
      [] fn = "lzma_then_hex" -> lzma_then_hex(s)
      [] fn = "url_pct_lower" -> url_pct_lower(s)
      [] fn = "percent_bytes_lower" -> percent_bytes_lower(s)

RECURSIVE Apply(_, _, _)
\* f(s) for a function object f of the registry
Apply(f, s, env) ==
    CASE f.kind = "def" -> CallDef(f.fn, s, env)
      [] f.kind = "f_hex" -> f_hex(f.encoding, s)
      [] f.kind = "f_b64" -> f_b64(f.encoding, s)
      [] f.kind = "f_pct" -> f_pct(f.encoding, s)
      [] f.kind = "nested" -> nested_quote(s, f.n)
      [] f.kind = "chain" ->
           LET r1 == Apply(f.f1, s, env)
               r2 == IF r1.ok THEN Apply(f.f2, r1.val, env) ELSE r1
           IN  chain(r1, r2, s)

RECURSIVE ReadsClock(_)
\* whether a call of f reads the clock (gzip.compress stamps its header)
ReadsClock(f) ==
    CASE f.kind = "def" -> f.fn \in {"gzip_base64", "gzip_max_base64"}
      [] f.kind = "chain" -> ReadsClock(f.f1) \/ ReadsClock(f.f2)
      [] OTHER -> FALSE

RECURSIVE ReadsRandom(_)
\* whether a call of f draws from the random module
ReadsRandom(f) ==
    CASE f.kind = "def" -> f.fn = "shuffle_string"
      [] f.kind = "chain" -> ReadsRandom(f.f1) \/ ReadsRandom(f.f2)
      [] OTHER -> FALSE

RECURSIVE Factorial(_)
Factorial(n) == IF n <= 1 THEN 1 ELSE n * Factorial(n - 1)

\* what the outside can hand to one call of f: a clock reading and the draws
\* of the random source (fixed where f reads neither)
Envs(f) ==
    {[mtime |-> t, seed |-> r] :
        t \in (IF ReadsClock(f) THEN 1..MaxClock ELSE {1}),
        r \in (IF ReadsRandom(f) THEN 0..(Factorial(MaxLen) - 1) ELSE {0})}

----------------------------------------------------------------------------
(* Names.                                                                  *)

\* a < b for two str, as Python compares them: by the code points at the
\* first position where they differ, a proper prefix being the smaller
LexLess(a, b) ==
    LET n == Min(Len(a), Len(b))
        D == {k \in 1..n : a[k] # b[k]}
    IN  IF n > 0 /\ a[1] # b[1] THEN Ord[a[1]] < Ord[b[1]]
        ELSE IF D = {} THEN Len(a) < Len(b)
        ELSE LET k == CHOOSE x \in D : \A y \in D : x <= y
             IN  Ord[a[k]] < Ord[b[k]]

\* sorted(names): ascending and stable; the place of each element is the count
\* of the elements that go before it
sorted(names) ==
    LET n == Len(names)
        before(x, y) == LexLess(names[x], names[y]) \/ (names[x] = names[y] /\ x < y)
        place == [y \in 1..n |-> Cardinality({x \in 1..n : before(x, y)}) + 1]
    IN  [r \in 1..n |-> names[CHOOSE y \in 1..n : place[y] = r]]

\* str(n) as characters
StrOf(n) == [k \in 1..Len(DigitsOf(n, 10)) |-> Ascii[DigitsOf(n, 10)[k] + 17]]

\* the three outputs of the family loop (transforms.py:425)
OUTPUTS == << <<"h","e","x">>, <<"b","a","s","e","6","4">>,
              <<"p","e","r","c","e","n","t">> >>

\* the name without the output: f'{enc.replace("-", "")}'
FamilyName_no_output(encoding, output) == SelectSeq(encoding, LAMBDA c : c # "-")

\* the name with the encoding as it is spelt: f'{enc}_{out}'
FamilyName_raw(encoding, output) == encoding \o <<"_">> \o output

\* f'{enc.replace("-", "")}_{out}'
FamilyName(encoding, output) ==
    SelectSeq(encoding, LAMBDA c : c # "-") \o <<"_">> \o output

\* f'double_url_{i}x'
NestedName(n) ==
    <<"d","o","u","b","l","e","_","u","r","l","_">> \o StrOf(n) \o <<"x">>

\* f'{a}__then__{b}'
ChainName(a, b) == a \o <<"_","_","t","h","e","n","_","_">> \o b

----------------------------------------------------------------------------
(* Construction of the registry: the top-level code of transforms.py.      *)

N_pairs == 30

\* the outer range over the whole list: range(len(existing_keys))
OuterStop_all(keys) == Len(keys)

\* the stop of range(min(N_pairs, len(existing_keys)))
OuterStop(keys) == Min(N_pairs, Len(keys))

\* the inner range started at i instead of i+1: range(i, ...)
InnerStart_self(ii) == ii

\* the inner range with a window of five: min(i+6, len(existing_keys))
InnerStop_wide(ii, keys) == Min(ii + 6, Len(keys))

\* the start and the stop of range(i+1, min(i+4, len(existing_keys)))
InnerStart(ii) == ii + 1
InnerStop(ii, keys) == Min(ii + 4, Len(keys))

RECURSIVE NextOuter(_, _)
\* the first i >= ii of the outer range whose inner range is not empty, or the
\* stop of the outer range when there is none
NextOuter(ii, keys) ==
    IF ii >= OuterStop(keys) THEN OuterStop(keys)
    ELSE IF InnerStart(ii) < InnerStop(ii, keys) THEN ii
    ELSE NextOuter(ii + 1, keys)

\* url_generate.py is not running: the defaults of its arguments, no task
NoFetch ==
    /\ args = [delay_mode |-> 2, delay |-> 1, workers |-> 4]
    /\ clock = 0
    /\ _last_call = 0
    /\ _last_lock = 0
    /\ tasks = <<>>

\* no facade call is pending
NoCall == [op |-> "none", args |-> <<>>, raised |-> "none", value |-> <<>>,
           caught |-> <<>>, calls |-> 0, envs |-> <<>>]

\* the dict literal has been evaluated; the family loop is about to start
Init ==
    /\ TRANSFORMS = StaticTable
    /\ pc = "family"
    /\ enc = 1
    /\ out = 1
    /\ i = 0
    /\ j = 0
    /\ existing_keys = <<>>
    /\ ret = NoCall
    /\ NoFetch

\* one pass of the body of the loops over BYTE_ENCODINGS and the outputs
FamilyStep ==
    /\ pc = "family"
    /\ TRANSFORMS' = Put(TRANSFORMS, FamilyName(BYTE_ENCODINGS[enc], OUTPUTS[out]),
                         make_bytes_transform(BYTE_ENCODINGS[enc], OUTPUTS[out]))
    /\ IF out < Len(OUTPUTS)
       THEN out' = out + 1 /\ enc' = enc /\ pc' = pc
       ELSE IF enc < Len(BYTE_ENCODINGS)
       THEN out' = 1 /\ enc' = enc + 1 /\ pc' = pc
       ELSE out' = out /\ enc' = enc /\ pc' = "url_pct_lower"
    /\ UNCHANGED <<i, j, existing_keys, ret>>
    /\ UNCHANGED fetch_vars

\* TRANSFORMS['url_pct_lower'] = url_pct_lower
AddUrlPctLower ==
    /\ pc = "url_pct_lower"
    /\ TRANSFORMS' = Put(TRANSFORMS, <<"u","r","l","_","p","c","t","_","l","o","w","e","r">>,
                         Def("url_pct_lower"))
    /\ pc' = "percent_bytes_lower"
    /\ UNCHANGED <<enc, out, i, j, existing_keys, ret>>
    /\ UNCHANGED fetch_vars

\* the same assignment with the chain pass placed before the loop that adds
\* the double_url_<n>x entries, so that the snapshot is taken next
AddPercentBytesLower_early ==
    /\ pc = "percent_bytes_lower"
    /\ TRANSFORMS' = Put(TRANSFORMS,
           <<"p","e","r","c","e","n","t","_","b","y","t","e","s","_","l","o","w","e","r">>,
           Def("percent_bytes_lower"))
    /\ pc' = "snapshot"
    /\ UNCHANGED <<enc, out, i, j, existing_keys, ret>>
    /\ UNCHANGED fetch_vars

\* TRANSFORMS['percent_bytes_lower'] = percent_bytes_lower
AddPercentBytesLower ==
    /\ pc = "percent_bytes_lower"
    /\ TRANSFORMS' = Put(TRANSFORMS,
           <<"p","e","r","c","e","n","t","_","b","y","t","e","s","_","l","o","w","e","r">>,
           Def("percent_bytes_lower"))
    /\ pc' = "nested"
    /\ i' = 2
    /\ UNCHANGED <<enc, out, j, existing_keys, ret>>
    /\ UNCHANGED fetch_vars

\* one pass of the body of: for i in range(2, 6)
NestedStep ==
    /\ pc = "nested"
    /\ TRANSFORMS' = Put(TRANSFORMS, NestedName(i), nested_lambda(i))
    /\ IF i + 1 < 6 THEN i' = i + 1 /\ pc' = pc ELSE i' = i /\ pc' = "snapshot"
    /\ UNCHANGED <<enc, out, j, existing_keys, ret>>
    /\ UNCHANGED fetch_vars

\* existing_keys = list(TRANSFORMS.keys()), and the entry into the chain loops
Snapshot ==
    /\ pc = "snapshot"
    /\ existing_keys' = Keys(TRANSFORMS)
    /\ LET first == NextOuter(0, Keys(TRANSFORMS))
       IN  IF first < OuterStop(Keys(TRANSFORMS))
           THEN i' = first /\ j' = InnerStart(first) /\ pc' = "chains"
           ELSE i' = i /\ j' = j /\ pc' = "ready"
    /\ UNCHANGED <<TRANSFORMS, enc, out, ret>>
    /\ UNCHANGED fetch_vars

\* the same pass with chain reading f_a and f_b when it is called instead of
\* taking them as f1 and f2: every chain then runs the pair the loops end on
ChainStep_late ==
    /\ pc = "chains"
    /\ LET a == existing_keys[i + 1]
           b == existing_keys[j + 1]
           last_i == OuterStop(existing_keys) - 1
           last_j == InnerStop(last_i, existing_keys) - 1
           f_a == Get(TRANSFORMS, existing_keys[last_i + 1])
           f_b == Get(TRANSFORMS, existing_keys[last_j + 1])
       IN  TRANSFORMS' = Put(TRANSFORMS, ChainName(a, b), make_chain(f_a, f_b))
    /\ LET next == NextOuter(i + 1, existing_keys)
       IN  IF j + 1 < InnerStop(i, existing_keys)
           THEN i' = i /\ j' = j + 1 /\ pc' = pc
           ELSE IF next < OuterStop(existing_keys)
           THEN i' = next /\ j' = InnerStart(next) /\ pc' = pc
           ELSE i' = i /\ j' = j /\ pc' = "ready"
    /\ UNCHANGED <<enc, out, existing_keys, ret>>
    /\ UNCHANGED fetch_vars

\* one pass of the body of the chain loops, for the pair (i, j)
ChainStep ==
    /\ pc = "chains"
    /\ LET a == existing_keys[i + 1]
           b == existing_keys[j + 1]
           f_a == Get(TRANSFORMS, a)
           f_b == Get(TRANSFORMS, b)
       IN  TRANSFORMS' = Put(TRANSFORMS, ChainName(a, b), make_chain(f_a, f_b))
    /\ LET next == NextOuter(i + 1, existing_keys)
       IN  IF j + 1 < InnerStop(i, existing_keys)
           THEN i' = i /\ j' = j + 1 /\ pc' = pc
           ELSE IF next < OuterStop(existing_keys)
           THEN i' = next /\ j' = InnerStart(next) /\ pc' = pc
           ELSE i' = i /\ j' = j /\ pc' = "ready"
    /\ UNCHANGED <<enc, out, existing_keys, ret>>
    /\ UNCHANGED fetch_vars

----------------------------------------------------------------------------
(* The facade.  A caller that holds the built registry makes one call at a *)
(* time: the call is one step that leaves its outcome in ret, and the      *)
(* caller then goes on.                                                    *)

\* the characters texts are drawn from: NUL, 'a', e-acute and a lone
\* surrogate (which json.load produces from "\ud800")
Chars == {0, 97, 233, 55296}

\* further texts: "abc" and "Az" (letters of both cases), texts with '%':
\* "%", "%a", "%zz" (no two hex digits follow), "%aa" (a byte that is no
\* UTF-8), "a%41" (an escaped 'A'), " a\t b\n" (spaces, a tab, a newline),
\* "AB", and U+00E9 29 times (58 bytes of UTF-8, 80 characters of base64)
Samples == {
    <<97, 98, 99>>, <<65, 122>>, <<65, 66>>,
    <<37>>, <<37, 97>>, <<37, 122, 122>>, <<37, 97, 97>>, <<97, 37, 52, 49>>,
    <<32, 97, 9, 32, 98, 10>>,
    [k \in 1..29 |-> 233] }

\* the texts handed to a registered function
Texts == UNION {[1..n -> Chars] : n \in 0..MaxLen} \cup Samples

\* the payloads of the entries of a json_data list
Payloads == UNION {[1..n -> Chars] : n \in 0..MaxPayload}

\* the entries of a json_data list: with a payload, or without the key
Entries == {[payload |-> s] : s \in Payloads} \cup {[id |-> 1]}

JsonData == UNION {[1..n -> Entries] : n \in 0..MaxEntries}

\* names a caller may pass besides the registered ones
ProbeNames == {
    <<"u","n","k","n","o","w","n","_","n","a","m","e">>,
    <<"l","z","m","a","_","t","h","e","n","_","h","e","x">>,
    <<>> }

\* the names a caller passes: every registered one and the others above
CallerNames == {TRANSFORMS[k].name : k \in 1..Len(TRANSFORMS)} \cup ProbeNames

\* entry.get('payload', '')
PayloadOf(entry) == IF "payload" \in DOMAIN entry THEN entry.payload ELSE <<>>

\* list_transforms() with the sort left out: the keys in insertion order
list_transforms_unsorted == Keys(TRANSFORMS)

\* list_transforms(): sorted(TRANSFORMS.keys())
list_transforms == sorted(Keys(TRANSFORMS))

\* transform_payloads with the lookup moved into the loop: an unknown name is
\* noticed only when there is a first entry to transform
transform_payloads_lazy_lookup(json_data, transform_name, envs) ==
    IF ~Has(TRANSFORMS, transform_name)
    THEN [op |-> "transform_payloads", args |-> <<json_data, transform_name>>,
          raised |-> IF json_data = <<>> THEN "none" ELSE "ValueError",
          value |-> <<>>, caught |-> <<>>, calls |-> 0, envs |-> envs]
    ELSE LET transform_func == Get(TRANSFORMS, transform_name)
             r(k) == Apply(transform_func, PayloadOf(json_data[k]), envs[k])
         IN  [op |-> "transform_payloads", args |-> <<json_data, transform_name>>,
              raised |-> "none",
              value |-> [k \in 1..Len(json_data) |->
                            IF r(k).ok THEN r(k).val ELSE PayloadOf(json_data[k])],
              caught |-> [k \in 1..Len(json_data) |-> ~r(k).ok],
              calls |-> Len(json_data), envs |-> envs]

\* transform_payloads with entry['payload'] in place of entry.get('payload', ''):
\* the first entry without the key raises KeyError out of the loop
transform_payloads_subscript(json_data, transform_name, envs) ==
    IF ~Has(TRANSFORMS, transform_name)
    THEN [op |-> "transform_payloads", args |-> <<json_data, transform_name>>,
          raised |-> "ValueError", value |-> <<>>, caught |-> <<>>, calls |-> 0,
          envs |-> envs]
    ELSE LET transform_func == Get(TRANSFORMS, transform_name)
             r(k) == Apply(transform_func, PayloadOf(json_data[k]), envs[k])
             missing == {k \in 1..Len(json_data) : "payload" \notin DOMAIN json_data[k]}
             done == IF missing = {} THEN Len(json_data)
                     ELSE (CHOOSE k \in missing : \A x \in missing : k <= x) - 1
         IN  [op |-> "transform_payloads", args |-> <<json_data, transform_name>>,
              raised |-> IF missing = {} THEN "none" ELSE "KeyError",
              value |-> IF missing # {} THEN <<>>
                        ELSE [k \in 1..Len(json_data) |->
                                IF r(k).ok THEN r(k).val ELSE PayloadOf(json_data[k])],
              caught |-> [k \in 1..done |-> ~r(k).ok],
              calls |-> done, envs |-> envs]

\* transform_payloads(json_data, transform_name); envs[k] is what the k-th
\* call of the transform reads from outside.  caught and calls record, per
\* entry, whether the except branch ran and how many calls were made
transform_payloads(json_data, transform_name, envs) ==
    IF ~Has(TRANSFORMS, transform_name)
    THEN [op |-> "transform_payloads", args |-> <<json_data, transform_name>>,
          raised |-> "ValueError", value |-> <<>>, caught |-> <<>>, calls |-> 0,
          envs |-> envs]
    ELSE LET transform_func == Get(TRANSFORMS, transform_name)
             r(k) == Apply(transform_func, PayloadOf(json_data[k]), envs[k])
         IN  [op |-> "transform_payloads", args |-> <<json_data, transform_name>>,
              raised |-> "none",
              value |-> [k \in 1..Len(json_data) |->
                            IF r(k).ok THEN r(k).val ELSE PayloadOf(json_data[k])],
              caught |-> [k \in 1..Len(json_data) |-> ~r(k).ok],
              calls |-> Len(json_data), envs |-> envs]

\* a call TRANSFORMS[name](s) of one registered function by a module that
\* imported the registry (an absent name is a KeyError of the subscript)
CallTransform ==
    /\ pc = "ready"
    /\ \E name \in CallerNames :
       \E s \in Texts :
       \E env \in (IF Has(TRANSFORMS, name) THEN Envs(Get(TRANSFORMS, name))
                   ELSE {[mtime |-> 1, seed |-> 0]}) :
           ret' = IF Has(TRANSFORMS, name)
                  THEN LET r == Apply(Get(TRANSFORMS, name), s, env)
                       IN  [op |-> "call", args |-> <<name, s>>, raised |-> r.exc,
                            value |-> r.val, caught |-> <<>>, calls |-> 1,
                            envs |-> <<env>>]
                  ELSE [op |-> "call", args |-> <<name, s>>, raised |-> "KeyError",
                        value |-> <<>>, caught |-> <<>>, calls |-> 0, envs |-> <<env>>]
    /\ pc' = "returned"
    /\ UNCHANGED <<TRANSFORMS, enc, out, i, j, existing_keys>>
    /\ UNCHANGED fetch_vars

\* a call of list_transforms() by a caller that got hold of TRANSFORMS while
\* the chain pass was still running
ListTransforms_early ==
    /\ pc \in {"chains", "ready"}
    /\ ret' = [op |-> "list_transforms", args |-> <<>>, raised |-> "none",
               value |-> list_transforms, caught |-> <<>>, calls |-> 0, envs |-> <<>>]
    /\ pc' = "returned"
    /\ UNCHANGED <<TRANSFORMS, enc, out, i, j, existing_keys>>
    /\ UNCHANGED fetch_vars

\* a call of list_transforms()
ListTransforms ==
    /\ pc = "ready"
    /\ ret' = [op |-> "list_transforms", args |-> <<>>, raised |-> "none",
               value |-> list_transforms, caught |-> <<>>, calls |-> 0, envs |-> <<>>]
    /\ pc' = "returned"
    /\ UNCHANGED <<TRANSFORMS, enc, out, i, j, existing_keys>>
    /\ UNCHANGED fetch_vars

\* a call of transform_payloads that registers a stand-in for a name it does
\* not find (TRANSFORMS.setdefault(transform_name, noop)) instead of raising
TransformPayloads_setdefault ==
    /\ pc = "ready"
    /\ \E json_data \in JsonData :
       \E transform_name \in CallerNames :
       \E envs \in [1..Len(json_data) ->
                      IF Has(TRANSFORMS, transform_name)
                      THEN Envs(Get(TRANSFORMS, transform_name))
                      ELSE {[mtime |-> 1, seed |-> 0]}] :
           /\ TRANSFORMS' = IF Has(TRANSFORMS, transform_name) THEN TRANSFORMS
                            ELSE Put(TRANSFORMS, transform_name, Def("noop"))
           /\ ret' = IF Has(TRANSFORMS, transform_name)
                     THEN transform_payloads(json_data, transform_name, envs)
                     ELSE [op |-> "transform_payloads",
                           args |-> <<json_data, transform_name>>, raised |-> "none",
                           value |-> [k \in 1..Len(json_data) |-> PayloadOf(json_data[k])],
                           caught |-> [k \in 1..Len(json_data) |-> FALSE],
                           calls |-> Len(json_data), envs |-> envs]
    /\ pc' = "returned"
    /\ UNCHANGED <<enc, out, i, j, existing_keys>>
    /\ UNCHANGED fetch_vars

\* a call of transform_payloads(json_data, transform_name)
TransformPayloads ==
    /\ pc = "ready"
    /\ \E json_data \in JsonData :
       \E transform_name \in CallerNames :
       \E envs \in [1..Len(json_data) ->
                      IF Has(TRANSFORMS, transform_name)
                      THEN Envs(Get(TRANSFORMS, transform_name))
                      ELSE {[mtime |-> 1, seed |-> 0]}] :
           ret' = transform_payloads(json_data, transform_name, envs)
    /\ pc' = "returned"
    /\ UNCHANGED <<TRANSFORMS, enc, out, i, j, existing_keys>>
    /\ UNCHANGED fetch_vars

\* main of run_all_transforms.py: one subprocess per name of
\* sorted(TRANSFORMS.keys()), in that order; value lists the names launched
RunAllMain ==
    /\ pc = "ready"
    /\ ret' = [op |-> "run_all_main", args |-> <<>>, raised |-> "none",
               value |-> sorted(Keys(TRANSFORMS)), caught |-> <<>>, calls |-> 0,
               envs |-> <<>>]
    /\ pc' = "returned"
    /\ UNCHANGED <<TRANSFORMS, enc, out, i, j, existing_keys>>
    /\ UNCHANGED fetch_vars

\* main(json_filepath, transform_name) of changing_the_format.py, for the
\* json_data that json.load returned.  makedirs and opened tell whether the
\* call created the tests directory and opened the output file; value holds
\* the lines the file has when the call is over: f.write(line + '\n') encodes
\* to UTF-8, so the first line with a lone surrogate raises UnicodeEncodeError
\* after the lines before it were written
main(json_data, transform_name, envs) ==
    LET rest(tp) ==
            LET bad == {k \in 1..Len(tp.value) : ~CanUtf8(tp.value[k])}
                written == IF bad = {} THEN Len(tp.value)
                           ELSE (CHOOSE k \in bad : \A x \in bad : k <= x) - 1
            IN  IF tp.raised # "none"
                THEN [op |-> "main", args |-> <<json_data, transform_name>>,
                      raised |-> tp.raised, value |-> <<>>, caught |-> tp.caught,
                      calls |-> tp.calls, envs |-> envs,
                      makedirs |-> FALSE, opened |-> FALSE]
                ELSE [op |-> "main", args |-> <<json_data, transform_name>>,
                      raised |-> IF bad = {} THEN "none" ELSE "UnicodeEncodeError",
                      value |-> SubSeq(tp.value, 1, written), caught |-> tp.caught,
                      calls |-> tp.calls, envs |-> envs,
                      makedirs |-> TRUE, opened |-> TRUE]
    IN  \* transformed_payloads is computed once (line 23), then lines 26-36
        CHOOSE r \in {rest(tp) : tp \in {transform_payloads(json_data, transform_name, envs)}} :
            TRUE

\* a run of changing_the_format.py: main(json_file, transform)
FormatMain ==
    /\ pc = "ready"
    /\ \E json_data \in JsonData :
       \E transform_name \in CallerNames :
       \E envs \in [1..Len(json_data) ->
                      IF Has(TRANSFORMS, transform_name)
                      THEN Envs(Get(TRANSFORMS, transform_name))
                      ELSE {[mtime |-> 1, seed |-> 0]}] :
           ret' = main(json_data, transform_name, envs)
    /\ pc' = "returned"
    /\ UNCHANGED <<TRANSFORMS, enc, out, i, j, existing_keys>>
    /\ UNCHANGED fetch_vars

\* the caller goes on after a call returned or raised
Return ==
    /\ pc = "returned"
    /\ pc' = "ready"
    /\ ret' = NoCall
    /\ UNCHANGED <<TRANSFORMS, enc, out, i, j, existing_keys>>
    /\ UNCHANGED fetch_vars

Next ==
    \/ FamilyStep
    \/ AddUrlPctLower
    \/ AddPercentBytesLower
    \/ NestedStep
    \/ Snapshot
    \/ ChainStep
    \/ CallTransform
    \/ ListTransforms
    \/ TransformPayloads
    \/ RunAllMain
    \/ FormatMain
    \/ Return

Spec == Init /\ [][Next]_vars

(* The same top-level code over a shorter dict literal: the first n static *)
(* entries, for n up to MaxStatic.  The bounds of the chain loops depend   *)
(* on len(existing_keys) only, and this is where they are cut by it.       *)
InitSized ==
    /\ \E n \in 0..MaxStatic : TRANSFORMS = SubSeq(StaticTable, 1, n)
    /\ pc = "family"
    /\ enc = 1
    /\ out = 1
    /\ i = 0
    /\ j = 0
    /\ existing_keys = <<>>
    /\ ret = NoCall
    /\ NoFetch

SpecSized == InitSized /\ [][Next]_vars

\* url_generate.py does not import format.transforms: no registry
NoRegistry ==
    /\ TRANSFORMS = <<>>
    /\ pc = "absent"
    /\ enc = 1
    /\ out = 1
    /\ i = 0
    /\ j = 0
    /\ existing_keys = <<>>
    /\ ret = NoCall

----------------------------------------------------------------------------
(* url_generate.py: fetch_url run by the threads of a ThreadPoolExecutor.  *)
(* Time is counted in whole ticks of time.time(); a task is one submitted  *)
(* call fetch_url(session, u, 10, args.delay_mode, args.delay).            *)

\* the submitted calls, in the order of the list urls
Urls == 1..MaxUrls

\* the record of a call that returned r, its GET issued at the time sent
\* (-1: none was issued); the locals are gone with the frame
Returned(r, sent) ==
    [pc |-> "done", now |-> 0, wait |-> 0, wake |-> 0, sent |-> sent, result |-> r]

\* a task that ex.submit queued and no thread has taken yet
Queued == [pc |-> "queued", now |-> 0, wait |-> 0, wake |-> 0, sent |-> -1,
           result |-> "none"]

\* the tasks a thread of the pool is running
Running == {t \in DOMAIN tasks : tasks[t].pc \notin {"queued", "done"}}

\* the state when main reaches ex.submit: any --delay-mode, --delay and
\* --workers, any reading of the clock, _last_call = 0.0 and the lock free
InitFetch ==
    /\ NoRegistry
    /\ args \in [delay_mode : {0, 1, 2}, delay : 0..MaxDelay, workers : 1..MaxWorkers]
    /\ clock \in 0..MaxDelay
    /\ _last_call = 0
    /\ _last_lock = 0
    /\ tasks = [t \in Urls |-> Queued]

\* a thread of the pool takes the oldest queued task and runs fetch_url up
\* to the branch of lines 72-74
Start(t) ==
    /\ tasks[t].pc = "queued"
    /\ \A u \in 1..(t - 1) : tasks[u].pc # "queued"
    /\ Cardinality(Running) < args.workers
    /\ tasks' = [tasks EXCEPT ![t].pc =
                    IF args.delay_mode = 1 /\ args.delay # 0 THEN "sleep1"
                    ELSE IF args.delay_mode = 2 /\ args.delay # 0 THEN "acquire"
                    ELSE "get"]
    /\ UNCHANGED <<args, clock, _last_call, _last_lock>>
    /\ UNCHANGED registry_vars

\* time.sleep(secs) is called: OverflowError when secs is more than
\* time.sleep accepts, which the except of line 84 turns into the result
\* "ERR"; leaving the with block on the way releases the lock
SleepCall(t) ==
    /\ tasks[t].pc \in {"sleep1", "sleep2"}
    /\ LET secs == IF tasks[t].pc = "sleep1" THEN args.delay ELSE tasks[t].wait
       IN  IF secs > MaxSleep
           THEN /\ tasks' = [tasks EXCEPT ![t] = Returned("ERR", -1)]
                /\ _last_lock' = IF _last_lock = t THEN 0 ELSE _last_lock
           ELSE /\ tasks' = [tasks EXCEPT
                                ![t].pc = IF tasks[t].pc = "sleep1" THEN "sleeping1"
                                          ELSE "sleeping2",
                                ![t].wake = clock + secs]
                /\ UNCHANGED _last_lock
    /\ UNCHANGED <<args, clock, _last_call>>
    /\ UNCHANGED registry_vars

\* time.sleep returns: not before secs have passed
Wake(t) ==
    /\ tasks[t].pc \in {"sleeping1", "sleeping2"}
    /\ clock >= tasks[t].wake
    /\ tasks' = [tasks EXCEPT ![t].pc = IF tasks[t].pc = "sleeping1" THEN "get"
                                        ELSE "write"]
    /\ UNCHANGED <<args, clock, _last_call, _last_lock>>
    /\ UNCHANGED registry_vars

\* with _last_lock: entered by a thread that finds the lock free, with no
\* check of the lock
Acquire_unlocked(t) ==
    /\ tasks[t].pc = "acquire"
    /\ _last_lock' = t
    /\ tasks' = [tasks EXCEPT ![t].pc = "now"]
    /\ UNCHANGED <<args, clock, _last_call>>
    /\ UNCHANGED registry_vars

\* with _last_lock: the thread blocks until the lock is free and takes it
Acquire(t) ==
    /\ tasks[t].pc = "acquire"
    /\ _last_lock = 0
    /\ _last_lock' = t
    /\ tasks' = [tasks EXCEPT ![t].pc = "now"]
    /\ UNCHANGED <<args, clock, _last_call>>
    /\ UNCHANGED registry_vars

\* now = time.time(); wait = delay - (now - _last_call); if wait > 0
ReadNow(t) ==
    /\ tasks[t].pc = "now"
    /\ LET w == args.delay - (clock - _last_call)
       IN  tasks' = [tasks EXCEPT ![t].now = clock, ![t].wait = w,
                                  ![t].pc = IF w > 0 THEN "sleep2" ELSE "write"]
    /\ UNCHANGED <<args, clock, _last_call, _last_lock>>
    /\ UNCHANGED registry_vars

\* _last_call = time.time()
WriteLast(t) ==
    /\ tasks[t].pc = "write"
    /\ _last_call' = clock
    /\ tasks' = [tasks EXCEPT ![t].pc = "release"]
    /\ UNCHANGED <<args, clock, _last_lock>>
    /\ UNCHANGED registry_vars

\* the end of the with block: the lock is released
Release(t) ==
    /\ tasks[t].pc = "release"
    /\ _last_lock' = 0
    /\ tasks' = [tasks EXCEPT ![t].pc = "get"]
    /\ UNCHANGED <<args, clock, _last_call>>
    /\ UNCHANGED registry_vars

\* r = session.get(url, timeout=timeout): the request is issued now; the
\* call returns (url, status, length), or "ERR" when requests raises
SessionGet(t) ==
    /\ tasks[t].pc = "get"
    /\ \E r \in {"response", "ERR"} :
           tasks' = [tasks EXCEPT ![t] = Returned(r, clock)]
    /\ UNCHANGED <<args, clock, _last_call, _last_lock>>
    /\ UNCHANGED registry_vars

\* the clock goes on
Tick ==
    /\ clock < MaxTime
    /\ clock' = clock + 1
    /\ UNCHANGED <<args, _last_call, _last_lock, tasks>>
    /\ UNCHANGED registry_vars

NextFetch ==
    \/ \E t \in Urls : Start(t)
    \/ \E t \in Urls : SleepCall(t)
    \/ \E t \in Urls : Wake(t)
    \/ \E t \in Urls : Acquire(t)
    \/ \E t \in Urls : ReadNow(t)
    \/ \E t \in Urls : WriteLast(t)
    \/ \E t \in Urls : Release(t)
    \/ \E t \in Urls : SessionGet(t)
    \/ Tick

SpecFetch == InitFetch /\ [][NextFetch]_vars

----------------------------------------------------------------------------
(* Properties.                                                             *)

\* v is a str: a sequence of code points
IsText(v) == \A k \in DOMAIN v : v[k] \in Nat /\ v[k] < 1114112

\* a call TRANSFORMS[name](s) of a registered name has just returned or raised
Called == pc = "returned" /\ ret.op = "call" /\ Has(TRANSFORMS, ret.args[1])

\* the function that was called, and whether it is one of the chains
CalledFn == Get(TRANSFORMS, ret.args[1])
CalledChain == Called /\ CalledFn.kind = "chain"

\* what the two stages of the called chain do on the call's input: f1(s), and
\* f2(f1(s)) (read only where f1(s) returned)
Stage1 == Apply(CalledFn.f1, ret.args[2], ret.envs[1])
Stage2 == Apply(CalledFn.f2, Stage1.val, ret.envs[1])

\* the separator of a chain's name, and where it starts in the called name
Then == <<"_","_","t","h","e","n","_","_">>
ThenAt ==
    LET name == ret.args[1]
        at == {k \in 1..(Len(name) - 7) : SubSeq(name, k, k + 7) = Then}
    IN  CHOOSE k \in at : \A x \in at : k <= x

\* a call of transform_payloads has just returned or raised
Transformed == pc = "returned" /\ ret.op = "transform_payloads"

\* C1: for every registered name and every text s, TRANSFORMS[name](s)
\* returns a text and never raises
C1_NeverRaises == Called => ret.raised = "none" /\ IsText(ret.value)

\* C2: transform_payloads raises ValueError exactly when the name is absent
\* from TRANSFORMS, and then no payload has been handed to a transform
C2_UnknownName ==
    Transformed =>
        /\ (ret.raised = "ValueError") <=> ~Has(TRANSFORMS, ret.args[2])
        /\ ret.raised \in {"ValueError", "none"}
        /\ ret.raised = "ValueError" => ret.calls = 0 /\ ret.value = <<>>

\* a call with an unknown name and a list that has entries to transform
C2_Witness ==
    /\ Transformed
    /\ ret.raised = "ValueError"
    /\ Len(ret.args[1]) = MaxEntries
    /\ \E k \in 1..Len(ret.args[1]) : "payload" \in DOMAIN ret.args[1][k]

\* C3: for a registered name transform_payloads does not raise and returns
\* one text per entry: the transform's result for the entry's payload, or the
\* payload itself where the transform raised; an entry without the key
\* 'payload' counts as the empty string
C3_Outputs ==
    Transformed /\ Has(TRANSFORMS, ret.args[2]) =>
        /\ ret.raised = "none"
        /\ Len(ret.value) = Len(ret.args[1])
        /\ \A k \in 1..Len(ret.args[1]) :
            LET entry == ret.args[1][k]
                payload == IF "payload" \in DOMAIN entry THEN entry.payload ELSE <<>>
                r == Apply(Get(TRANSFORMS, ret.args[2]), payload, ret.envs[k])
            IN  /\ IsText(ret.value[k])
                /\ ret.value[k] = IF r.ok THEN r.val ELSE payload

\* a list with an entry on which the transform raised and an entry that has
\* no 'payload' key
C3_Witness ==
    /\ Transformed
    /\ ret.raised = "none"
    /\ \E k \in 1..Len(ret.caught) : ret.caught[k] /\ ret.value[k] = ret.args[1][k].payload
    /\ \E k \in 1..Len(ret.args[1]) :
          "payload" \notin DOMAIN ret.args[1][k] /\ ret.value[k] # <<>>

\* C4: list_transforms() (and the listing of the batch runner) holds every
\* key of TRANSFORMS exactly once in strictly ascending order; there is one
\* such sequence for a set of keys, so every call returns the same one
C4_SortedListing ==
    pc = "returned" /\ ret.op \in {"list_transforms", "run_all_main"} =>
        /\ Len(ret.value) = Len(TRANSFORMS)
        /\ {ret.value[k] : k \in 1..Len(ret.value)}
             = {TRANSFORMS[k].name : k \in 1..Len(TRANSFORMS)}
        /\ \A k \in 1..(Len(ret.value) - 1) : LexLess(ret.value[k], ret.value[k + 1])

\* list_transforms() has returned the whole registry, in an order other than
\* the order of insertion
C4_Witness ==
    /\ pc = "returned"
    /\ ret.op = "list_transforms"
    /\ Len(ret.value) > Len(existing_keys)
    /\ ret.value # Keys(TRANSFORMS)

\* C5: a chain whose first stage raises on s, or whose second stage raises on
\* the first stage's result, returns s and raises nothing
C5_ChainFallback ==
    CalledChain /\ (~Stage1.ok \/ ~Stage2.ok) =>
        ret.raised = "none" /\ ret.value = ret.args[2]

\* a chain was called on a text its first stage raises on
C5_Witness == CalledChain /\ ~Stage1.ok /\ ret.args[2] # <<>>

\* the stages that catch their own failure and return their input
HandlesOwnFailure(f) == f.kind \in {"f_hex", "f_b64", "f_pct"} \/ f = Def("punycode")

\* C6: a chain returns either f2(f1(s)), both stages having returned, or s;
\* where the second stage raises on f1(s) it returns s, not f1(s); and a
\* second stage that catches its own failure never hands f1(s) back
C6_AllOrNothing ==
    CalledChain =>
        /\ ret.raised = "none"
        /\ \/ ret.value = ret.args[2]
           \/ Stage1.ok /\ Stage2.ok /\ ret.value = Stage2.val
        /\ Stage1.ok /\ ~Stage2.ok => ret.value = ret.args[2]
        /\ Stage1.ok /\ Stage1.val # <<>> /\ HandlesOwnFailure(CalledFn.f2) =>
              Stage2.ok /\ Stage2.val # Stage1.val

\* a chain was called on a text its first stage changes and its second stage
\* raises on
C6_Witness ==
    /\ CalledChain
    /\ Stage1.ok
    /\ Stage1.val # ret.args[2]
    /\ ~Stage2.ok

\* C7: the chain pass pairs position i with the positions i+1, i+2, i+3 that
\* exist and with no other: never with itself, never backward, never past the
\* end of the list; when the pass is over the chains are those pairs, each once
C7_Window ==
    /\ pc = "chains" =>
          /\ i < OuterStop(existing_keys)
          /\ i < j
          /\ j <= i + 3
          /\ j < Len(existing_keys)
    /\ pc = "ready" =>
          LET n == Len(existing_keys)
              pairs == {<<p, q>> \in (1..n) \X (1..n) :
                            p <= N_pairs /\ p < q /\ q <= p + 3}
          IN  /\ Len(TRANSFORMS) = n + Cardinality(pairs)
              /\ {TRANSFORMS[k].name : k \in (n + 1)..Len(TRANSFORMS)}
                   = {ChainName(existing_keys[pq[1]], existing_keys[pq[2]]) : pq \in pairs}

\* the pass is over for a list shorter than N_pairs: the last name but one is
\* paired with the last, and the last name starts no chain
C7_Witness ==
    /\ pc = "ready"
    /\ Len(existing_keys) < N_pairs
    /\ Len(existing_keys) > 3
    /\ Has(TRANSFORMS, ChainName(existing_keys[Len(existing_keys) - 1],
                                 existing_keys[Len(existing_keys)]))
    /\ \A k \in 1..Len(existing_keys) :
          ~Has(TRANSFORMS, ChainName(existing_keys[Len(existing_keys)], existing_keys[k]))

\* C8: the chain registered as a__then__b holds the functions registered as
\* a and as b, and where neither stage raises its result on s is b(a(s))
\* (with the same clock reading)
C8_ChainBinding ==
    CalledChain =>
        LET name == ret.args[1]
            a == SubSeq(name, 1, ThenAt - 1)
            b == SubSeq(name, ThenAt + 8, Len(name))
            r1 == Apply(Get(TRANSFORMS, a), ret.args[2], ret.envs[1])
            r2 == Apply(Get(TRANSFORMS, b), r1.val, ret.envs[1])
        IN  /\ Has(TRANSFORMS, a)
            /\ Has(TRANSFORMS, b)
            /\ CalledFn.f1 = Get(TRANSFORMS, a)
            /\ CalledFn.f2 = Get(TRANSFORMS, b)
            /\ r1.ok /\ r2.ok => ret.raised = "none" /\ ret.value = r2.val

\* a chain other than the last one registered was called, both stages
\* returned and the result differs from the input
C8_Witness ==
    /\ CalledChain
    /\ ret.args[1] # TRANSFORMS[Len(TRANSFORMS)].name
    /\ Stage1.ok
    /\ Stage2.ok
    /\ ret.value # ret.args[2]
    /\ ret.value # Stage1.val

\* the names the first pass inserts: the dict literal, the family loops, the
\* two assignments after them, and the double_url_<n>x loop
FirstPassNames ==
    {StaticTable[k].name : k \in 1..Len(StaticTable)}
    \cup {FamilyName(BYTE_ENCODINGS[e], OUTPUTS[o]) :
            e \in 1..Len(BYTE_ENCODINGS), o \in 1..Len(OUTPUTS)}
    \cup {<<"u","r","l","_","p","c","t","_","l","o","w","e","r">>,
          <<"p","e","r","c","e","n","t","_","b","y","t","e","s","_","l","o","w","e","r">>}
    \cup {NestedName(n) : n \in 2..5}

\* C9: while the chain pass runs, and whenever a chain is registered, every
\* name of the first pass is registered and existing_keys is the list of the
\* names that were registered when the pass started; no component of a chain
\* is itself a chain
C9_ChainsAfterFirstPass ==
    pc # "returned" =>
        LET chains == {k \in 1..Len(TRANSFORMS) : TRANSFORMS[k].fn.kind = "chain"}
        IN  /\ pc = "chains" \/ chains # {} =>
                /\ pc \in {"chains", "ready"}
                /\ \A name \in FirstPassNames : Has(TRANSFORMS, name)
                /\ {existing_keys[k] : k \in 1..Len(existing_keys)} = FirstPassNames
                /\ existing_keys = SubSeq(Keys(TRANSFORMS), 1, Len(existing_keys))
                /\ \A k \in chains : k > Len(existing_keys)
            /\ \A k \in chains :
                /\ TRANSFORMS[k].fn.f1.kind # "chain"
                /\ TRANSFORMS[k].fn.f2.kind # "chain"
                /\ \E p, q \in 1..Len(existing_keys) :
                      /\ TRANSFORMS[k].fn.f1 = Get(TRANSFORMS, existing_keys[p])
                      /\ TRANSFORMS[k].fn.f2 = Get(TRANSFORMS, existing_keys[q])

\* the chain pass is under way: chains are registered and more are to come
C9_Witness ==
    /\ pc = "chains"
    /\ i > 0
    /\ Len(TRANSFORMS) > Len(existing_keys)
    /\ TRANSFORMS[Len(TRANSFORMS)].fn.kind = "chain"

\* C10: once the module is initialised, no call of the facade, returning or
\* raising, changes TRANSFORMS: its keys, their order and their functions
C10_RegistryFrozen ==
    [][(pc \in {"ready", "returned"}) => (TRANSFORMS' = TRANSFORMS)]_vars

\* a call of transform_payloads was made on the complete registry and raised
C10_Witness ==
    /\ pc = "returned"
    /\ ret.op = "transform_payloads"
    /\ ret.raised # "none"
    /\ Len(TRANSFORMS) > Len(existing_keys)
    /\ existing_keys # <<>>

\* the four passes have run: the names of the first pass are the snapshot,
\* and every pair of the chain loops has its entry
Constructed ==
    /\ Len(existing_keys) = Cardinality(FirstPassNames)
    /\ Len(TRANSFORMS) = Len(existing_keys)
         + Cardinality({<<p, q>> \in (1..Len(existing_keys)) \X (1..Len(existing_keys)) :
                            p <= N_pairs /\ p < q /\ q <= p + 3})
    /\ TRANSFORMS[Len(TRANSFORMS)].fn.kind = "chain"

\* C11: a call of the facade is made only on the registry that the four
\* passes have completed, and once they have completed no pass runs again
C11_NoPartialView ==
    [][/\ (ret' # ret /\ ret'.op # "none") => (pc = "ready" /\ Constructed)
       /\ (pc \in {"ready", "returned"}) =>
             (pc' \in {"ready", "returned"} /\ existing_keys' = existing_keys)]_vars

\* the batch runner has read the registry after an earlier call returned
C11_Witness ==
    /\ pc = "returned"
    /\ ret.op = "run_all_main"
    /\ Constructed
    /\ Len(ret.value) = Len(TRANSFORMS)

\* the registry holds no name twice, and when construction is over it has
\* one entry per insertion: the dict literal's, 7 x 3 of the family loops, the
\* two assignments, the four of the double_url loop and one per chain pair
NoKeyTwice ==
    /\ pc # "returned" =>
          Cardinality({TRANSFORMS[k].name : k \in 1..Len(TRANSFORMS)}) = Len(TRANSFORMS)
    /\ pc = "ready" =>
          Len(TRANSFORMS) = Len(StaticTable) + Len(BYTE_ENCODINGS) * Len(OUTPUTS) + 2 + 4
             + Cardinality({<<p, q>> \in (1..Len(existing_keys)) \X (1..Len(existing_keys)) :
                                p <= N_pairs /\ p < q /\ q <= p + 3})

\* C12: every insertion of the construction adds a name the registry did not
\* hold, after the entries it held, which it leaves as they were; so no name
\* is held twice and the final size is the number of insertions
C12_NoOverwrite ==
    /\ []NoKeyTwice
    /\ [][(pc \in {"family", "url_pct_lower", "percent_bytes_lower", "nested", "chains"}) =>
            (/\ Len(TRANSFORMS') = Len(TRANSFORMS) + 1
             /\ SubSeq(TRANSFORMS', 1, Len(TRANSFORMS)) = TRANSFORMS
             /\ ~Has(TRANSFORMS, TRANSFORMS'[Len(TRANSFORMS')].name))]_vars

\* the chain pass is inserting while the registry holds the hand-written
\* double_url next to the generated double_url_2x and utf8_hex
C12_Witness ==
    /\ pc = "chains"
    /\ j = i + 2
    /\ Has(TRANSFORMS, <<"d","o","u","b","l","e","_","u","r","l">>)
    /\ Has(TRANSFORMS, NestedName(2))
    /\ Has(TRANSFORMS, FamilyName(BYTE_ENCODINGS[1], OUTPUTS[1]))
    /\ Len(TRANSFORMS) > Len(existing_keys) + N_pairs

\* a letter or a digit: what is left of an identifier when its punctuation
\* is stripped
IsAlnum(c) ==
    LET n == Ord[c]
    IN  (n >= 48 /\ n <= 57) \/ (n >= 65 /\ n <= 90) \/ (n >= 97 /\ n <= 122)

\* the name the claim gives the pair (encoding, output)
StrippedName(encoding, output) == SelectSeq(encoding, IsAlnum) \o <<"_">> \o output

\* the pairs of the cross product, by position
FamilyPairs == (1..Len(BYTE_ENCODINGS)) \X (1..Len(OUTPUTS))

\* C13: once the family loops are over, for each of the 7 encodings and each
\* of the 3 outputs exactly one entry of the registry is named by the encoding
\* without its punctuation, an underscore and the output, and the 21 names
\* differ from one another
C13_FamilyNames ==
    (pc \in {"url_pct_lower", "percent_bytes_lower", "nested", "snapshot", "chains", "ready"}) =>
        /\ Len(BYTE_ENCODINGS) = 7
        /\ \A eo \in FamilyPairs :
              Cardinality({k \in 1..Len(TRANSFORMS) :
                  TRANSFORMS[k].name = StrippedName(BYTE_ENCODINGS[eo[1]], OUTPUTS[eo[2]])}) = 1
        /\ Cardinality({StrippedName(BYTE_ENCODINGS[eo[1]], OUTPUTS[eo[2]]) : eo \in FamilyPairs}) = 21

\* the family loops have just ended: utf16le_percent and utf7_base64 are
\* registered, the hyphenated spellings are not
C13_Witness ==
    /\ pc = "url_pct_lower"
    /\ Has(TRANSFORMS, <<"u","t","f","1","6","l","e","_","p","e","r","c","e","n","t">>)
    /\ Has(TRANSFORMS, <<"u","t","f","7","_","b","a","s","e","6","4">>)
    /\ ~Has(TRANSFORMS, <<"u","t","f","-","7","_","b","a","s","e","6","4">>)
    /\ TRANSFORMS[Len(TRANSFORMS)].name = StrippedName(BYTE_ENCODINGS[7], OUTPUTS[3])

\* the representation named output of the bytes b
Representation(output, b) ==
    CASE output = OUTPUTS[1] -> hexlify(b)
      [] output = OUTPUTS[2] -> b64encode(b)
      [] output = OUTPUTS[3] -> FlatMap(PctUpper, b)

\* the pairs (encoding, output) whose name a returned call used
CalledPairs ==
    {eo \in FamilyPairs : ret.args[1] = FamilyName(BYTE_ENCODINGS[eo[1]], OUTPUTS[eo[2]])}

Latin1Hex == <<"l","a","t","i","n","1","_","h","e","x">>
Cp1251Hex == <<"c","p","1","2","5","1","_","h","e","x">>

\* C14: a call of the entry named for the pair (e, r) returns representation r
\* of s encoded with e, whatever pairs were generated before or after it; on a
\* text holding U+00E9, whose byte is E9 in latin1 and which cp1251 lacks,
\* latin1_hex and cp1251_hex return different outputs
C14_OwnParameters ==
    Called =>
        /\ \A eo \in CalledPairs :
              /\ ret.raised = "none"
              /\ ret.value = Representation(OUTPUTS[eo[2]],
                                 EncodeReplace(ret.args[2], BYTE_ENCODINGS[eo[1]]))
        /\ (ret.args[1] = Latin1Hex /\ \E k \in DOMAIN ret.args[2] : ret.args[2][k] = 233) =>
              Ok(ret.value) # Apply(Get(TRANSFORMS, Cp1251Hex), ret.args[2], ret.envs[1])

\* latin1_hex returned 'e9' for U+00E9, where cp1251_hex returns '3f'
C14_Witness ==
    /\ Called
    /\ ret.args = <<Latin1Hex, <<233>> >>
    /\ ret.value = T(<<"e","9">>)
    /\ Apply(Get(TRANSFORMS, Cp1251Hex), <<233>>, ret.envs[1]) = Ok(T(<<"3","f">>))

\* one more urllib.parse.quote(t, safe='') on the outcome of the ones before
QuoteAgain(outcome) == IF outcome.ok THEN quote(outcome.val, {}) ELSE outcome

\* s percent-encoded n times, for the n of the loop
Quoted(s, n) ==
    CASE n = 2 -> QuoteAgain(QuoteAgain(Ok(s)))
      [] n = 3 -> QuoteAgain(QuoteAgain(QuoteAgain(Ok(s))))
      [] n = 4 -> QuoteAgain(QuoteAgain(QuoteAgain(QuoteAgain(Ok(s)))))
      [] n = 5 -> QuoteAgain(QuoteAgain(QuoteAgain(QuoteAgain(QuoteAgain(Ok(s))))))

\* C15: for n in 2..5 a call of double_url_{n}x gives its input
\* percent-encoded n times, each entry with the n it was made for; the
\* registry never holds a double_url_{n}x for another n
C15_NestedQuote ==
    /\ \A n \in (0..9) \ (2..5) : ~Has(TRANSFORMS, NestedName(n))
    /\ Called =>
          \A n \in 2..5 :
              ret.args[1] = NestedName(n) =>
                  /\ ret.raised = Quoted(ret.args[2], n).exc
                  /\ ret.value = Quoted(ret.args[2], n).val

\* double_url_3x('%') returned '%252525'
C15_Witness ==
    /\ Called
    /\ ret.args = <<NestedName(3), <<37>> >>
    /\ ret.value = T(<<"%","2","5","2","5","2","5">>)

\* s with each character the encoding lacks replaced by '?'
Replaced(s, encoding) ==
    [k \in 1..Len(s) |-> IF Representable(s[k], encoding) THEN s[k] ELSE 63]

\* C16: a call of a family entry on a text holding a character its encoding
\* cannot represent does not raise and does not return the text: it returns
\* the entry's representation of the bytes of the text in which each such
\* character is replaced by '?'
C16_Replacement ==
    Called =>
        \A eo \in CalledPairs :
            LET s == ret.args[2]
                encoding == BYTE_ENCODINGS[eo[1]]
            IN  (\E k \in 1..Len(s) : ~Representable(s[k], encoding)) =>
                    /\ ret.raised = "none"
                    /\ ret.value # s
                    /\ ret.value = Representation(OUTPUTS[eo[2]],
                                       EncodeReplace(Replaced(s, encoding), encoding))

\* utf8_hex on 'a' followed by a lone surrogate returned '613f'
C16_Witness ==
    /\ Called
    /\ ret.args = << <<"u","t","f","8","_","h","e","x">>, <<97, 55296>> >>
    /\ ret.raised = "none"
    /\ ret.value = T(<<"6","1","3","f">>)

\* C17: a call of a registered name other than shuffle_string returns what
\* every other call of that name on the same text returns, whatever the clock
\* and the random source give it
C17_Deterministic ==
    (Called /\ ret.args[1] # <<"s","h","u","f","f","l","e","_","s","t","r","i","n","g">>) =>
        \A env \in Envs(CalledFn) :
            Apply(CalledFn, ret.args[2], env) =
                (IF ret.raised = "none" THEN Ok(ret.value) ELSE Raise(ret.raised))

\* a '%' at position k followed by two hex digits
IsTriple(s, k) ==
    k + 2 <= Len(s) /\ s[k] = 37 /\ IsHexDigit(s[k + 1]) /\ IsHexDigit(s[k + 2])

\* the bytes written by the n escapes that start at position p
EscapedBytes(s, p, n) ==
    [m \in 1..n |-> 16 * HexValue(s[p + 3 * m - 2]) + HexValue(s[p + 3 * m - 1])]

\* a '%' that two hex digits do not follow
BadPercent(s) == \E k \in 1..Len(s) : s[k] = 37 /\ ~IsTriple(s, k)

\* a longest run of escapes whose bytes are not the UTF-8 form of any text
BadBytes(s) ==
    \E p \in 1..Len(s) : \E n \in 1..(Len(s) \div 3) :
        /\ \A m \in 0..(n - 1) : IsTriple(s, p + 3 * m)
        /\ ~IsTriple(s, p + 3 * n)
        /\ ~(p > 3 /\ IsTriple(s, p - 3))
        /\ Utf8(Utf8DecodeReplace(EscapedBytes(s, p, n))) # EscapedBytes(s, p, n)

\* C18: a call of url_decode never raises, and on a text with a malformed
\* percent sequence ('%' without two hex digits after it, or escaped bytes
\* that are not valid UTF-8) it returns the text unchanged
C18_UrlDecodeMalformed ==
    (Called /\ ret.args[1] = <<"u","r","l","_","d","e","c","o","d","e">>) =>
        /\ ret.raised = "none"
        /\ (BadPercent(ret.args[2]) \/ BadBytes(ret.args[2])) => ret.value = ret.args[2]

\* C19: for every text x, url_decode(url_all(x)) = x: a call of url_all
\* returns a text that url_decode takes back to the argument
C19_UrlRoundTrip ==
    (Called /\ ret.args[1] = <<"u","r","l","_","a","l","l">>) =>
        /\ ret.raised = "none"
        /\ url_decode(ret.value) = Ok(ret.args[2])

\* a letter moved 13 places within its case: A-M and a-m forward, N-Z and
\* n-z back; any other character as it is
Rotated(c) ==
    IF (c >= 65 /\ c <= 77) \/ (c >= 97 /\ c <= 109) THEN c + 13
    ELSE IF (c >= 78 /\ c <= 90) \/ (c >= 110 /\ c <= 122) THEN c - 13
    ELSE c

Rot13Name == <<"r","o","t","1","3">>

\* C20: a call of rot13 returns its argument with each Latin letter moved 13
\* places within its case and every other character unchanged; rot13 of the
\* result is the argument, and rot13('abc') is 'nop'
C20_Rot13 ==
    (Called /\ ret.args[1] = Rot13Name) =>
        /\ ret.raised = "none"
        /\ ret.value = [k \in 1..Len(ret.args[2]) |-> Rotated(ret.args[2][k])]
        /\ Apply(CalledFn, ret.value, ret.envs[1]) = Ok(ret.args[2])
        /\ ret.args[2] = T(<<"a","b","c">>) => ret.value = T(<<"n","o","p">>)

\* rot13('abc') returned 'nop'
C20_Witness ==
    /\ Called
    /\ ret.args = <<Rot13Name, T(<<"a","b","c">>)>>
    /\ ret.value = T(<<"n","o","p">>)
    /\ rot13(ret.value) = Ok(T(<<"a","b","c">>))

NoopName == <<"n","o","o","p">>
RemoveWhitespaceName == <<"r","e","m","o","v","e","_","w","h","i","t","e","s","p","a","c","e">>

\* C21: a call of noop returns its argument; a call of remove_whitespace
\* returns a text that remove_whitespace returns as it is
C21_NoopAndIdempotence ==
    Called =>
        /\ ret.args[1] = NoopName => (ret.raised = "none" /\ ret.value = ret.args[2])
        /\ ret.args[1] = RemoveWhitespaceName =>
              /\ ret.raised = "none"
              /\ Apply(CalledFn, ret.value, ret.envs[1]) = Ok(ret.value)

\* remove_whitespace(' a\t b\n') returned 'ab\n', which it leaves as it is
C21_Witness ==
    /\ Called
    /\ ret.args = <<RemoveWhitespaceName, <<32, 97, 9, 32, 98, 10>> >>
    /\ ret.value = <<97, 98, 10>>
    /\ remove_whitespace(ret.value) = Ok(ret.value)

ShuffleName == <<"s","h","u","f","f","l","e","_","s","t","r","i","n","g">>

\* how many times the character c stands in the text s
Count(s, c) == Cardinality({k \in 1..Len(s) : s[k] = c})

\* C22: whatever the random source draws, a call of shuffle_string returns a
\* text of the length of its argument in which every character stands as
\* many times as in the argument
C22_Permutation ==
    (Called /\ ret.args[1] = ShuffleName) =>
        /\ ret.raised = "none"
        /\ Len(ret.value) = Len(ret.args[2])
        /\ \A k \in 1..Len(ret.args[2]) :
              Count(ret.value, ret.args[2][k]) = Count(ret.args[2], ret.args[2][k])

\* shuffle_string exchanged the two characters of a text
C22_Witness ==
    /\ Called
    /\ ret.args[1] = ShuffleName
    /\ Len(ret.args[2]) = 2
    /\ ret.args[2][1] # ret.args[2][2]
    /\ ret.value = <<ret.args[2][2], ret.args[2][1]>>

\* the positions of the chain entries in the registry
ChainEntries == {k \in 1..Len(TRANSFORMS) : TRANSFORMS[k].fn.kind = "chain"}

\* the chain entries whose name starts with the p-th name of the listing
ChainsFrom(p) ==
    LET head == existing_keys[p] \o Then
    IN  {k \in ChainEntries :
            /\ Len(TRANSFORMS[k].name) > Len(head)
            /\ SubSeq(TRANSFORMS[k].name, 1, Len(head)) = head}

\* C23: during and after the chain pass every chain starts at one of the
\* first K = N_pairs names of the listing, at most 3 chains start at any
\* name, so there are at most 3 * K chains for every size n of the listing,
\* and exactly 3 * K once the pass is over for n >= K + 3
C23_LinearChains ==
    (pc \in {"chains", "ready"}) =>
        /\ \A k \in ChainEntries : \E p \in 1..Min(N_pairs, Len(existing_keys)) : k \in ChainsFrom(p)
        /\ \A p \in 1..Len(existing_keys) : Cardinality(ChainsFrom(p)) <= 3
        /\ Cardinality(ChainEntries) <= 3 * N_pairs
        /\ (pc = "ready" /\ Len(existing_keys) >= N_pairs + 3) =>
              Cardinality(ChainEntries) = 3 * N_pairs

\* the pass is over for a listing of K + 3 names: 3 * K chains, three of
\* them from the K-th name and none from the names after it
C23_Witness ==
    /\ pc = "ready"
    /\ Len(existing_keys) = N_pairs + 3
    /\ Cardinality(ChainEntries) = 3 * N_pairs
    /\ Cardinality(ChainsFrom(N_pairs)) = 3
    /\ ChainsFrom(N_pairs + 1) = {}

HexLowerName == <<"h","e","x","_","l","o","w","e","r">>

\* the value of one of the digits 0-9 a-f, and -1 for any other character
LowerHexValue(c) ==
    IF c >= 48 /\ c <= 57 THEN c - 48 ELSE IF c >= 97 /\ c <= 102 THEN c - 87 ELSE -1

\* C24: a call of hex_lower on a text that has a UTF-8 encoding returns two
\* characters per byte of the encoding, in order: the byte's high and low
\* digits out of 0-9 a-f, and nothing else; hex_lower('AB') is '4142'
C24_HexLower ==
    (Called /\ ret.args[1] = HexLowerName /\ CanUtf8(ret.args[2])) =>
        LET b == Utf8(ret.args[2])
        IN  /\ ret.raised = "none"
            /\ Len(ret.value) = 2 * Len(b)
            /\ \A k \in 1..Len(b) :
                  /\ LowerHexValue(ret.value[2 * k - 1]) >= 0
                  /\ LowerHexValue(ret.value[2 * k]) >= 0
                  /\ 16 * LowerHexValue(ret.value[2 * k - 1]) + LowerHexValue(ret.value[2 * k]) = b[k]
            /\ ret.args[2] = T(<<"A","B">>) => ret.value = T(<<"4","1","4","2">>)

\* hex_lower('AB') returned '4142'
C24_Witness ==
    /\ Called
    /\ ret.args = <<HexLowerName, T(<<"A","B">>)>>
    /\ ret.value = T(<<"4","1","4","2">>)

Base64MimeName == <<"b","a","s","e","6","4","_","m","i","m","e">>

\* C25: a call of base64_mime on a text that has a UTF-8 encoding returns
\* the standard base64 of the text cut into lines: no line is longer than 76,
\* the result without its newlines is base64(s), and it does not end with a
\* newline
C25_MimeWrap ==
    (Called /\ ret.args[1] = Base64MimeName /\ CanUtf8(ret.args[2])) =>
        /\ ret.raised = "none"
        /\ \A k \in 1..(Len(ret.value) - 76) : \E m \in k..(k + 76) : ret.value[m] = 10
        /\ SelectSeq(ret.value, LAMBDA c : c # 10) = b64encode(Utf8(ret.args[2]))
        /\ ret.value # <<>> => ret.value[Len(ret.value)] # 10

\* the 0-based positions a chain component can have: 0..K+2
ComponentPositions == 0..(N_pairs + 2)

\* C28: during and after the chain pass, both components of every chain are
\* names at 0-based positions at most K + 2 = 32 of the listing, which are
\* entries of the dict literal: functions defined in the module, no family
\* entry, no nested-quote entry, no chain, and neither shuffle_string nor
\* url_decode
C28_StaticComponents ==
    (pc \in {"chains", "ready"}) =>
        \A k \in ChainEntries :
            \E p \in ComponentPositions : \E q \in ComponentPositions :
                /\ q + 1 <= Len(existing_keys)
                /\ TRANSFORMS[k].name = ChainName(existing_keys[p + 1], existing_keys[q + 1])
                /\ TRANSFORMS[k].fn.f1 = TRANSFORMS[p + 1].fn
                /\ TRANSFORMS[k].fn.f2 = TRANSFORMS[q + 1].fn
                /\ q + 1 <= Len(StaticTable)
                /\ TRANSFORMS[p + 1] = StaticTable[p + 1]
                /\ TRANSFORMS[q + 1] = StaticTable[q + 1]
                /\ \A f \in {TRANSFORMS[k].fn.f1, TRANSFORMS[k].fn.f2} :
                      f.kind = "def" /\ f.fn \notin {"shuffle_string", "url_decode"}

\* the pass is over in the full registry: the last chain joins the names at
\* 0-based positions 29 and 32, and no chain has url_decode, shuffle_string or
\* utf8_hex as a component
C28_Witness ==
    /\ pc = "ready"
    /\ Len(existing_keys) > Len(StaticTable)
    /\ TRANSFORMS[Len(TRANSFORMS)].name = ChainName(existing_keys[N_pairs], existing_keys[N_pairs + 3])
    /\ \A k \in ChainEntries :
          \A f \in {TRANSFORMS[k].fn.f1, TRANSFORMS[k].fn.f2} :
              f \notin {Get(TRANSFORMS, ShuffleName),
                        Get(TRANSFORMS, <<"u","r","l","_","d","e","c","o","d","e">>),
                        Get(TRANSFORMS, FamilyName(BYTE_ENCODINGS[1], OUTPUTS[1]))}

\* a run of changing_the_format.py's main is over
MainDone == pc = "returned" /\ ret.op = "main"

\* C29: main called with a name absent from the registry raises before it
\* creates the tests directory or opens the output file; called with a
\* registered name it leaves a file with one line per entry of the input, in
\* the order of the input, each the transformed payload of its entry
C29_MainOutput ==
    MainDone =>
        /\ ~Has(TRANSFORMS, ret.args[2]) =>
              /\ ret.raised = "ValueError"
              /\ ~ret.makedirs
              /\ ~ret.opened
              /\ ret.value = <<>>
        /\ Has(TRANSFORMS, ret.args[2]) =>
              /\ ret.raised = "none"
              /\ ret.opened
              /\ Len(ret.value) = Len(ret.args[1])
              /\ ret.value = transform_payloads(ret.args[1], ret.args[2], ret.envs).value

\* delay mode 2 with a delay: the global rate limit is on
RateLimited == DOMAIN tasks # {} /\ args.delay_mode = 2 /\ args.delay > 0

\* the tasks whose session.get was called
Sent == {t \in DOMAIN tasks : tasks[t].sent >= 0}

\* C26: in delay mode 2 with delay > 0, whatever the number of threads and
\* the interleaving, any two calls of session.get are at least delay apart
C26_GetsApart ==
    RateLimited =>
        \A t \in Sent : \A u \in Sent \ {t} :
            tasks[t].sent - tasks[u].sent >= args.delay
               \/ tasks[u].sent - tasks[t].sent >= args.delay

\* the tasks inside the with block of lines 75-80
InSection == {t \in DOMAIN tasks :
                 tasks[t].pc \in {"now", "sleep2", "sleeping2", "write", "release"}}

\* at most one task is inside the with block, it is the one that holds the
\* lock, and a task outside the block does not hold it
OneInSection ==
    RateLimited =>
        /\ Cardinality(InSection) <= 1
        /\ \A t \in DOMAIN tasks : (_last_lock = t) <=> (t \in InSection)

\* C27: in delay mode 2 with delay > 0 and a clock that never goes back, at
\* most one thread at a time is between the entry and the end of the with
\* block, the lock is free again on every way out of the block (its end, or
\* the exception of time.sleep), and each value written to _last_call is at
\* least delay after the value it replaces
C27_Section ==
    /\ []OneInSection
    /\ [][RateLimited =>
            /\ (_last_call' # _last_call) => (_last_call' - _last_call >= args.delay)
            /\ \A t \in DOMAIN tasks :
                  (t \in InSection /\ tasks'[t].pc \in {"get", "done"}) => (_last_lock' = 0)]_vars

\* a second task sleeps inside the with block after a first one wrote
\* _last_call and sent its GET, while a third waits for the lock
C27_Witness ==
    /\ RateLimited
    /\ tasks[1].pc = "done"
    /\ tasks[1].sent >= 0
    /\ _last_call > 0
    /\ tasks[2].pc = "sleeping2"
    /\ _last_lock = 2
    /\ tasks[3].pc = "acquire"

====
